---------------------------- MODULE Spec2Model ----------------------------
(***************************************************************************)
(* rust-network-mgr: the reconciliation engine.                            *)
(*                                                                         *)
(* Producers (the link/address watcher, the control socket) send events on *)
(* one bounded queue.  The event loop of main() takes them one by one; for *)
(* a network event and for a reload command it spawns a task.  A network   *)
(* task mutates the shared AppState under its mutex, clones the network    *)
(* state, drops the mutex and calls NftablesManager::apply_rules, which    *)
(* submits a flush transaction and then an add transaction to the kernel.  *)
(* A reload task stores the new config in AppState and calls apply_rules   *)
(* while it still holds the mutex.                                         *)
(*                                                                         *)
(* The link/address watcher (NetworkMonitor) keeps its own maps of the     *)
(* links and addresses it has learned and turns netlink messages into      *)
(* events.  The control socket (SocketHandler) reads one line per          *)
(* connection and turns a command into an event, with a reply slot for     *)
(* status and ping.                                                        *)
(***************************************************************************)
EXTENDS Integers, Sequences, FiniteSets, TLC

(***************************************************************************)
(* Bounds of the model.                                                    *)
(***************************************************************************)
\* Events the producers send in one run.
MaxEvents == 2
\* Transactions the kernel rejects for a reason of its own in one run.
MaxRejects == 1
\* Changes somebody else makes to a kernel set in one run.
MaxExternal == 1
\* Connections the control socket accepts in one run.
MaxConns == 2
\* Netlink messages the monitor takes from its stream in one run.
MaxMessages == 3
\* Events the Docker monitor sends in one run of stop events.
MaxBurst == 101

(***************************************************************************)
(* Program constants.                                                      *)
(***************************************************************************)
EVENT_CHANNEL_SIZE == 100

(***************************************************************************)
(* Values.                                                                 *)
(***************************************************************************)
\* std::net::IpAddr: the enum's variant and the address.
V4a == [fam |-> "V4", addr |-> "203.0.113.5"]
V4b == [fam |-> "V4", addr |-> "10.0.0.1"]
V6a == [fam |-> "V6", addr |-> "2001:db8::1"]
Addrs == {V4a, V4b, V6a}
Families == {"V4", "V6"}

Names == {"eth0", "eth1"}
Zones == {"wan", "lan"}
\* nftables_zone: None
NoZone == "none"

\* The address lists the watcher's IpUpdate events carry in this model.
IpLists == {<< >>, <<V4a>>, <<V4a, V6a>>}

\* InterfaceConfig: name and nftables_zone (dhcp and address are not read by
\* any code of the daemon).
InterfaceConfig(name, zone) == [name |-> name, nftables_zone |-> zone]

\* The config files of this model: load_config returns one of them, or fails.
CfgWanLan == << InterfaceConfig("eth0", "wan"), InterfaceConfig("eth1", "lan") >>
CfgLanLan == << InterfaceConfig("eth0", "lan"), InterfaceConfig("eth1", "lan") >>
ConfigFiles == {CfgWanLan, CfgLanLan}
\* Result<AppConfig> of load_initial_config()
ConfigOk(c) == [ok |-> TRUE, interfaces |-> c]
ConfigErr == [ok |-> FALSE, interfaces |-> << >>]
ConfigResults == {ConfigOk(c) : c \in ConfigFiles} \cup {ConfigErr}

\* What the config file may hold at start-up, parsed: the two files above,
\* a file with an interface outside every zone, and files validate_config
\* has to refuse.
CfgNoZoneLan == << InterfaceConfig("eth0", NoZone), InterfaceConfig("eth1", "lan") >>
CandidateConfigs ==
    ConfigFiles \cup
        {CfgNoZoneLan,
         << >>,
         << InterfaceConfig("", "wan") >>,
         << InterfaceConfig("eth0", "wan"), InterfaceConfig("", NoZone) >>}

\* A validate_config that looks at the list only, not at the names.
ValidateConfigNonEmptyOnly(interfaces) ==
    IF interfaces = << >> THEN "ConfigValidation" ELSE "Ok"
\* validate_config: Ok, or the variant of the AppError it returns.
ValidateConfig(interfaces) ==
    IF interfaces = << >> THEN "ConfigValidation"
    ELSE IF \E i \in DOMAIN interfaces : interfaces[i].name = ""
    THEN "ConfigValidation"
    ELSE "Ok"

\* NetworkEvent and ControlCommand, as one record shape.
IpUpdate(interface, ips) ==
    [type |-> "IpUpdate", name |-> interface, ips |-> ips, is_up |-> FALSE]
LinkChanged(name, is_up) ==
    [type |-> "LinkChanged", name |-> name, ips |-> << >>, is_up |-> is_up]
Reload == [type |-> "Reload", name |-> "", ips |-> << >>, is_up |-> FALSE]
Status == [type |-> "Status", name |-> "", ips |-> << >>, is_up |-> FALSE]
Ping == [type |-> "Ping", name |-> "", ips |-> << >>, is_up |-> FALSE]
Shutdown == [type |-> "Shutdown", name |-> "", ips |-> << >>, is_up |-> FALSE]
NoEvent == [type |-> "none", name |-> "", ips |-> << >>, is_up |-> FALSE]

NetworkEvents ==
    {IpUpdate(n, l) : n \in Names, l \in IpLists}
        \cup {LinkChanged(n, u) : n \in Names, u \in BOOLEAN}

\* DockerEvent, in the same shape: name is the container id, ips the
\* Option<IpAddr> (empty for None).
ContainerStarted(id, ip) ==
    [type |-> "ContainerStarted", name |-> id, ips |-> ip, is_up |-> FALSE]
ContainerStopped(id) ==
    [type |-> "ContainerStopped", name |-> id, ips |-> << >>, is_up |-> FALSE]
ContainerIds == {"c1", "c2"}
DockerEvents ==
    {ContainerStarted(id, ip) : id \in ContainerIds, ip \in {<< >>, << V4b >>}}
        \cup {ContainerStopped(id) : id \in ContainerIds}

\* HashMap operations.
EmptyMap == [x \in {} |-> {}]
Insert(m, k, v) == [x \in (DOMAIN m) \cup {k} |-> IF x = k THEN v ELSE m[x]]
Remove(m, k) == [x \in (DOMAIN m) \ {k} |-> m[x]]
Range(s) == {s[i] : i \in DOMAIN s}

\* Vec operations.
Contains(v, x) == \E p \in DOMAIN v : v[p] = x
Position(v, x) == CHOOSE p \in DOMAIN v : v[p] = x /\ \A q \in 1..(p - 1) : v[q] # x
RemoveAt(v, p) == SubSeq(v, 1, p - 1) \o SubSeq(v, p + 1, Len(v))

\* Interface indexes, and the netlink messages of this model: a link message
\* carries index, IfName and the Up flag, an address message index and
\* Address.
Indexes == {1, 2}
LinkMessage(index, name, up) == [index |-> index, name |-> name, up |-> up]
AddressMessage(index, ip) == [index |-> index, ip |-> ip]
LinkMessages == {LinkMessage(i, n, u) : i \in Indexes, n \in Names, u \in BOOLEAN}
AddressMessages == {AddressMessage(i, ip) : i \in Indexes, ip \in {V4a, V6a}}
\* What the kernel answers to the two dump requests of the start-up
\* enumeration.
LinkDumps ==
    {<< >>,
     << LinkMessage(1, "eth0", TRUE) >>,
     << LinkMessage(1, "eth0", TRUE), LinkMessage(2, "eth1", FALSE) >>}
AddressDumps ==
    {<< >>,
     << AddressMessage(1, V4a) >>,
     << AddressMessage(1, V4a), AddressMessage(1, V4a) >>,
     << AddressMessage(1, V4a), AddressMessage(1, V6a) >>,
     << AddressMessage(2, V4a) >>,
     << AddressMessage(1, V4a), AddressMessage(2, V6a) >>}

\* The handler tasks, numbered by their event in the order of sending.
TaskIds == 1..MaxEvents

\* The connections the control socket accepts.
ConnIds == 1..MaxConns
\* A connection: pc is "none" (not accepted), "read" (its line is read),
\* "sent" (its event is sent, the acknowledgement not written), "wait"
\* (awaiting its reply slot), "done" (handle_connection returned Ok),
\* "err" (it returned Err), "cancelled" (the task was dropped at an await).  ev_id: the event it sent (0: none).  slot: the
\* oneshot channel, "none", "open", "sent" (a payload is in it) or "closed"
\* (response_tx dropped unused).  sends: the times response_tx.send was
\* called.  reply: what was written to the stream.  unread: the lines the
\* client has written after the one that was read.
NoConn == [pc |-> "none", line |-> << >>, ev_id |-> 0, slot |-> "none",
           payload |-> << >>, sends |-> 0, reply |-> << >>, unread |-> << >>]

\* A line is a sequence of words and white space; read_line returns it with
\* its newline, or empty at end of file.
Whitespace == {" ", "\n"}
Lines ==
    {<< "reload", "\n" >>, << "status", "\n" >>, << "ping", "\n" >>,
     << "shutdown", "\n" >>, << " ", "ping", " ", "\n" >>,
     << "reload", " ", "now", "\n" >>, << "\n" >>, << >>}

\* The lines of the clients that ping the daemon or shut it down.
CommandLines == {<< "ping", "\n" >>, << "shutdown", "\n" >>}

\* What a client writes on one connection before it closes its end: one
\* line, or two.
ClientInputs ==
    {<< << "ping", "\n" >> >>,
     << << "ping", "\n" >>, << "reload", "\n" >> >>,
     << << "reload", "\n" >>, << "ping", "\n" >> >>,
     << << "status", "\n" >>, << "reload", " ", "now", "\n" >> >>}

\* str::trim
RECURSIVE TrimStart(_)
TrimStart(line) ==
    IF line # << >> /\ Head(line) \in Whitespace THEN TrimStart(Tail(line)) ELSE line
RECURSIVE TrimEnd(_)
TrimEnd(line) ==
    IF line # << >> /\ line[Len(line)] \in Whitespace
    THEN TrimEnd(SubSeq(line, 1, Len(line) - 1)) ELSE line
\* A handle_connection that matches the line as it was read.
TrimNothing(line) == line
Trim(line) == TrimEnd(TrimStart(line))

\* What handle_connection writes to the stream.
OkReload == << "OK: Reload command sent", "\n" >>
OkShutdown == << "OK: Shutdown command sent", "\n" >>
UnknownCommand == << "ERROR: Unknown command", "\n" >>
ReplyError == << "ERROR: Failed to receive response", "\n" >>
\* The payloads the event loop sends on a reply slot.
Pong == << "PONG" >>
StatusReport(ips) ==
    << "Current Status:", "Interfaces:",
       IF DOMAIN ips = {} THEN "  (None)" ELSE "  name: ips",
       "Tracked Containers:", "  (None)" >>

VARIABLES
    main_pc,        \* where main() is: "load_rules", "initial_apply", "loop"
    app_config,     \* AppState.config.interfaces
    interface_ips,  \* AppState.network_state.interface_ips
    state_lock,     \* the tasks holding the AppState mutex (none or one)
    if_config,      \* interface_config_arc, the NftablesManager's config
    queue,          \* the event channel: << [id, ev] >>
    sent,           \* events sent so far
    task,           \* the spawned handler of each event
    ksets,          \* the kernel's sets of table inet filter: name -> elements
    rejects,        \* transactions the kernel rejected for its own reasons
    failed,         \* some transaction was rejected
    externals,      \* changes made to the sets by somebody else
    kset_type,      \* the kernel's sets: name -> the type the set was added with
    monitor_pc,     \* NetworkMonitor::start: "spawned", "listening", "ended"
                    \* (it returned Ok(())), "aborted"
    if_index_to_name, \* NetworkMonitor.if_index_to_name
    current_ips,    \* NetworkMonitor.current_ips
    messages,       \* netlink messages the monitor has taken from its stream
    socket_pc,      \* SocketHandler::start: "spawned", "listening", "failed"
    conn,           \* the connections of the control socket
    pending,        \* events the monitor has still to send for its message
    docker_pc,      \* DockerMonitor: "spawned", "listening", "disabled"
    container_ips,  \* AppState.container_ips
    config_file,    \* the interfaces of the config file main() finds
    main_result,    \* what main() returned: "none", "ok", "err"
    signal,         \* SIGTERM or SIGINT: "none", "pending", "taken"
    config_lock     \* the tasks holding the interface_config mutex (none or one)

\* The state of the link/address watcher and of the control socket.
watcher_vars == << monitor_pc, if_index_to_name, current_ips, messages, pending >>
socket_vars == << socket_pc, conn >>
\* The state of the container watcher, and of main() beside its loop.
docker_vars == << docker_pc, container_ips >>
main_vars == << config_file, main_result, signal >>

vars == << main_pc, app_config, interface_ips, state_lock, if_config, queue,
           sent, task, ksets, rejects, failed, externals, kset_type,
           watcher_vars, socket_vars, docker_vars, main_vars, config_lock >>

(***************************************************************************)
(* NftablesManager (nftables.rs).                                          *)
(***************************************************************************)
\* format!("{}_ips", zone) and format!("{}_ipv6", zone)
SetName(zone, fam) == << zone, IF fam = "V4" THEN "_ips" ELSE "_ipv6" >>
SetFamily(set) == IF set[2] = "_ips" THEN "V4" ELSE "V6"
SetNames == {SetName(z, f) : z \in Zones, f \in Families}

\* load_rules: the zones some interface of the config is bound to.
UniqueZones(cfg) ==
    {cfg[i].nftables_zone : i \in {j \in DOMAIN cfg : cfg[j].nftables_zone # NoZone}}

\* A load_rules that adds the IPv4 set of each zone only.
RequiredSetsIpv4Only(cfg) == {SetName(z, "V4") : z \in UniqueZones(cfg)}
\* load_rules: the sets its batch adds.
RequiredSets(cfg) == {SetName(z, f) : z \in UniqueZones(cfg), f \in Families}

\* load_rules: the set_type each set is added with.
SetType(set) == IF set[2] = "_ips" THEN "ipv4_addr" ELSE "ipv6_addr"
LoadBatch(cfg) == [s \in RequiredSets(cfg) |-> SetType(s)]

\* apply_rules: zone_to_ips.  A zone gets an entry when an interface bound
\* to it has an entry in interface_ips.
ZoneToIps(cfg, ips) ==
    LET bound(z) == {i \in DOMAIN cfg :
                        /\ cfg[i].nftables_zone = z
                        /\ cfg[i].name \in DOMAIN ips}
    IN  [z \in {y \in UniqueZones(cfg) : bound(y) # {}} |->
            UNION {Range(ips[cfg[i].name]) : i \in bound(z)}]

\* apply_rules: the sets its flush commands name.
FlushCommands(zone_to_ips) ==
    {SetName(z, f) : z \in DOMAIN zone_to_ips, f \in Families}

\* An apply_rules that puts every address of the zone into both sets.
FamilyElementsUnfiltered(ips, fam) == ips
\* apply_rules: the addresses of one family among a zone's addresses.
FamilyElements(ips, fam) == {ip \in ips : ip.fam = fam}

\* apply_rules: add_batch, one element list per set that gets elements.
AddBatch(zone_to_ips) ==
    [s \in {SetName(z, f) : z \in DOMAIN zone_to_ips, f \in Families}
        \cap {x \in SetNames : x[1] \in DOMAIN zone_to_ips
                /\ FamilyElements(zone_to_ips[x[1]], SetFamily(x)) # {}}
     |-> FamilyElements(zone_to_ips[s[1]], SetFamily(s))]

(***************************************************************************)
(* The kernel: what one transaction (helper::apply_ruleset) does to the    *)
(* sets.  A transaction that names a set that does not exist is rejected.  *)
(***************************************************************************)
KernelAddSets(ks, sets) ==
    [s \in (DOMAIN ks) \cup sets |-> IF s \in DOMAIN ks THEN ks[s] ELSE {}]
KernelAddTypes(kt, batch) ==
    [s \in (DOMAIN kt) \cup (DOMAIN batch) |->
        IF s \in DOMAIN kt THEN kt[s] ELSE batch[s]]
KernelFlushValid(ks, sets) == sets \subseteq DOMAIN ks
KernelFlush(ks, sets) ==
    [s \in DOMAIN ks |-> IF s \in sets THEN {} ELSE ks[s]]
KernelAddValid(ks, batch) ==
    /\ DOMAIN batch \subseteq DOMAIN ks
    /\ \A s \in DOMAIN batch : \A ip \in batch[s] : ip.fam = SetFamily(s)
KernelAddElements(ks, batch) ==
    [s \in DOMAIN ks |-> IF s \in DOMAIN batch THEN ks[s] \cup batch[s] ELSE ks[s]]

\* The kernel applies a valid transaction, leaving the sets as `after`.
Accepted(valid, after) ==
    /\ valid
    /\ ksets' = after
    /\ UNCHANGED << rejects, failed >>
\* The kernel rejects the transaction whole: an invalid one always, a valid
\* one for a reason of its own.
Rejected(valid) ==
    /\ ksets' = ksets
    /\ failed' = TRUE
    /\ \/ ~valid /\ rejects' = rejects
       \/ valid /\ rejects < MaxRejects /\ rejects' = rejects + 1

(***************************************************************************)
(* Tasks.                                                                  *)
(***************************************************************************)
\* pc: "none" (not spawned), "spawned", "apply" (about to call apply_rules),
\* "add" (in apply_rules, past its flush phase), "done".
\* cfg: the reload task's config_result; old_cfg: the config it replaced.
\* snap: the network state handed to apply_rules; target: zone_to_ips.
\* res: what apply_rules returned.
NoTask == [pc |-> "none", ev |-> NoEvent, cfg |-> ConfigErr, old_cfg |-> << >>,
           snap |-> EmptyMap, target |-> EmptyMap, res |-> "none"]
Spawned(ev, cfg) == [NoTask EXCEPT !.pc = "spawned", !.ev = ev, !.cfg = cfg]
Finished(t, res) == [t EXCEPT !.pc = "done", !.snap = EmptyMap,
                              !.target = EmptyMap, !.res = res]

\* The state main() has built when it comes to load_rules, the config file
\* holding `interfaces`.
InitWith(interfaces) ==
    /\ main_pc = "load_rules"
    /\ app_config = interfaces
    /\ if_config = app_config
    /\ interface_ips = EmptyMap
    /\ state_lock = {}
    /\ queue = << >>
    /\ sent = 0
    /\ task = [t \in TaskIds |-> NoTask]
    /\ ksets = EmptyMap
    /\ rejects = 0
    /\ failed = FALSE
    /\ externals = 0
    /\ kset_type = EmptyMap
    /\ monitor_pc = "spawned"
    /\ if_index_to_name = EmptyMap
    /\ current_ips = EmptyMap
    /\ messages = 0
    /\ socket_pc = "spawned"
    /\ conn = [c \in ConnIds |-> NoConn]
    /\ pending = << >>
    /\ docker_pc = "spawned"
    /\ container_ips = EmptyMap
    /\ config_file = interfaces
    /\ main_result = "none"
    /\ signal = "none"
    /\ config_lock = {}

Init == InitWith(CfgWanLan)

\* The state when main() comes to load_initial_config: nothing is built
\* yet, and the config file holds any of the candidates.
InitStartup ==
    /\ main_pc = "load_config"
    /\ config_file \in CandidateConfigs
    /\ app_config = << >>
    /\ if_config = << >>
    /\ interface_ips = EmptyMap
    /\ state_lock = {}
    /\ queue = << >>
    /\ sent = 0
    /\ task = [t \in TaskIds |-> NoTask]
    /\ ksets = EmptyMap
    /\ rejects = 0
    /\ failed = FALSE
    /\ externals = 0
    /\ kset_type = EmptyMap
    /\ monitor_pc = "spawned"
    /\ if_index_to_name = EmptyMap
    /\ current_ips = EmptyMap
    /\ messages = 0
    /\ socket_pc = "spawned"
    /\ conn = [c \in ConnIds |-> NoConn]
    /\ pending = << >>
    /\ docker_pc = "spawned"
    /\ container_ips = EmptyMap
    /\ main_result = "none"
    /\ signal = "none"
    /\ config_lock = {}

(***************************************************************************)
(* main(): start-up.                                                       *)
(***************************************************************************)
\* load_initial_config()?: load_config validates what it has parsed; its
\* error is returned from main, its config is what AppState and the
\* NftablesManager are built with.
LoadInitialConfig ==
    /\ main_pc = "load_config"
    /\ IF ValidateConfig(config_file) = "Ok"
       THEN /\ app_config' = config_file
            /\ if_config' = config_file
            /\ main_pc' = "load_rules"
            /\ main_result' = main_result
       ELSE /\ main_pc' = "exited"
            /\ main_result' = "err"
            /\ UNCHANGED << app_config, if_config >>
    /\ UNCHANGED << interface_ips, state_lock, queue, sent, task, ksets,
                    rejects, failed, externals, kset_type, watcher_vars,
                    socket_vars, docker_vars, config_file, signal, config_lock >>

\* nftables_manager.load_rules(): one batch adding the table and the sets.
\* Its error is logged and main goes on.
LoadRules ==
    /\ main_pc = "load_rules"
    /\ \/ /\ Accepted(TRUE, KernelAddSets(ksets, DOMAIN LoadBatch(if_config)))
          /\ kset_type' = KernelAddTypes(kset_type, LoadBatch(if_config))
       \/ /\ Rejected(TRUE)
          /\ kset_type' = kset_type
    /\ main_pc' = "initial_apply"
    /\ UNCHANGED << app_config, interface_ips, state_lock, if_config, queue,
                    sent, task, externals >>
    /\ UNCHANGED << watcher_vars, socket_vars >>
    /\ UNCHANGED << docker_vars, main_vars, config_lock >>

\* The initial apply_rules, under the AppState mutex: the state is empty, so
\* there is nothing to flush and nothing to add.
InitialApply ==
    /\ main_pc = "initial_apply"
    /\ state_lock = {}
    /\ FlushCommands(ZoneToIps(if_config, interface_ips)) = {}
    /\ main_pc' = "loop"
    /\ UNCHANGED << app_config, interface_ips, state_lock, if_config, queue,
                    sent, task, ksets, rejects, failed, externals >>
    /\ UNCHANGED << kset_type, watcher_vars, socket_vars >>
    /\ UNCHANGED << docker_vars, main_vars, config_lock >>

(***************************************************************************)
(* Producers.                                                              *)
(***************************************************************************)
Send(ev) ==
    /\ main_pc = "loop"
    /\ sent < MaxEvents
    /\ Len(queue) < EVENT_CHANNEL_SIZE
    /\ queue' = Append(queue, [id |-> sent + 1, ev |-> ev])
    /\ sent' = sent + 1
    /\ UNCHANGED << main_pc, app_config, interface_ips, state_lock, if_config,
                    task, ksets, rejects, failed, externals >>
    /\ UNCHANGED << kset_type, watcher_vars, socket_vars >>
    /\ UNCHANGED << docker_vars, main_vars, config_lock >>

\* NetworkMonitor::send_event
WatcherSend == \E ev \in NetworkEvents : Send(ev)

\* SocketHandler::handle_connection, "reload"
SocketSendReload == Send(Reload)

\* NetworkMonitor::send_event, for one address update.
WatcherSendUpdate == Send(IpUpdate("eth0", << V4a, V6a >>))

(***************************************************************************)
(* NetworkMonitor (network.rs).                                            *)
(***************************************************************************)
\* send_event, for the events of one message in their order.
SendEvents(events) ==
    /\ sent + Len(events) <= MaxEvents
    /\ Len(queue) + Len(events) <= EVENT_CHANNEL_SIZE
    /\ queue' = queue \o [k \in DOMAIN events |-> [id |-> sent + k, ev |-> events[k]]]
    /\ sent' = sent + Len(events)

\* start, step 1: the index -> name map of the link dump.
RECURSIVE EnumerateLinks(_)
EnumerateLinks(dump) ==
    IF dump = << >> THEN EmptyMap
    ELSE LET link == dump[Len(dump)]
         IN  Insert(EnumerateLinks(SubSeq(dump, 1, Len(dump) - 1)),
                    link.index, link.name)

\* current_ips after a NEWADDR: the address is pushed unless it is there.
AddressAdded(ips, index, ip) ==
    IF index \in DOMAIN ips /\ Contains(ips[index], ip) THEN ips
    ELSE Insert(ips, index,
                (IF index \in DOMAIN ips THEN ips[index] ELSE << >>) \o << ip >>)

\* current_ips after a DELADDR: the address is removed where it is found.
AddressRemoved(ips, index, ip) ==
    IF index \in DOMAIN ips /\ Contains(ips[index], ip)
    THEN [ips EXCEPT ![index] = RemoveAt(@, Position(@, ip))]
    ELSE ips

\* start, step 2: the addresses of the address dump, for the known indexes.
RECURSIVE EnumerateAddresses(_, _)
EnumerateAddresses(names, dump) ==
    IF dump = << >> THEN EmptyMap
    ELSE LET msg == dump[Len(dump)]
             initial_ips == EnumerateAddresses(names, SubSeq(dump, 1, Len(dump) - 1))
         IN  IF msg.index \in DOMAIN names
             THEN AddressAdded(initial_ips, msg.index, msg.ip)
             ELSE initial_ips

\* start: the initial enumeration.  It fills the monitor's two maps and
\* sends no event.
NetworkMonitorStart ==
    /\ main_pc = "loop"
    /\ monitor_pc = "spawned"
    /\ \E links \in LinkDumps, addresses \in AddressDumps :
          /\ if_index_to_name' = EnumerateLinks(links)
          /\ current_ips' = EnumerateAddresses(if_index_to_name', addresses)
    /\ monitor_pc' = "listening"
    /\ UNCHANGED << main_pc, app_config, interface_ips, state_lock, if_config,
                    queue, sent, task, ksets, rejects, failed, externals,
                    kset_type, messages, pending, socket_vars >>
    /\ UNCHANGED << docker_vars, main_vars, config_lock >>

\* The monitor takes the next message from its stream.
NextMessage ==
    /\ main_pc = "loop"
    /\ monitor_pc = "listening"
    /\ pending = << >>
    /\ messages < MaxMessages
    /\ messages' = messages + 1
    /\ UNCHANGED << main_pc, app_config, interface_ips, state_lock, if_config,
                    task, ksets, rejects, failed, externals, kset_type,
                    monitor_pc, socket_vars >>
    /\ UNCHANGED << docker_vars, main_vars, config_lock >>

\* A handle_address_change that keeps the address of an index it has no
\* name for.
HandleAddressChangeAnyIndex(msg, is_add) ==
    /\ NextMessage
    /\ UNCHANGED << if_index_to_name, pending >>
    /\ LET ips == IF is_add
                  THEN AddressAdded(current_ips, msg.index, msg.ip)
                  ELSE AddressRemoved(current_ips, msg.index, msg.ip)
           changed == ips # current_ips
       IN  /\ current_ips' = ips
           /\ IF changed /\ msg.index \in DOMAIN if_index_to_name
              THEN SendEvents(<< IpUpdate(if_index_to_name[msg.index],
                                          ips[msg.index]) >>)
              ELSE UNCHANGED << queue, sent >>

\* A handle_address_change whose event carries the address of the message
\* alone.
HandleAddressChangeDelta(msg, is_add) ==
    /\ NextMessage
    /\ UNCHANGED << if_index_to_name, pending >>
    /\ IF msg.index \in DOMAIN if_index_to_name
       THEN LET if_name == if_index_to_name[msg.index]
                ips == IF is_add
                       THEN AddressAdded(current_ips, msg.index, msg.ip)
                       ELSE AddressRemoved(current_ips, msg.index, msg.ip)
                changed == ips # current_ips
            IN  /\ current_ips' = ips
                /\ IF changed
                   THEN SendEvents(<< IpUpdate(if_name, << msg.ip >>) >>)
                   ELSE UNCHANGED << queue, sent >>
       ELSE UNCHANGED << current_ips, queue, sent >>

\* handle_address_change: NEWADDR (is_add) and DELADDR.
HandleAddressChange(msg, is_add) ==
    /\ NextMessage
    /\ UNCHANGED << if_index_to_name, pending >>
    /\ IF msg.index \in DOMAIN if_index_to_name
       THEN LET if_name == if_index_to_name[msg.index]
                ips == IF is_add
                       THEN AddressAdded(current_ips, msg.index, msg.ip)
                       ELSE AddressRemoved(current_ips, msg.index, msg.ip)
                changed == ips # current_ips
            IN  /\ current_ips' = ips
                /\ IF changed
                   THEN SendEvents(<< IpUpdate(if_name, ips[msg.index]) >>)
                   ELSE UNCHANGED << queue, sent >>
       ELSE UNCHANGED << current_ips, queue, sent >>

\* handle_link_change, NEWLINK: an event when the index is new or its name
\* has changed.
HandleNewLink(msg) ==
    /\ NextMessage
    /\ if_index_to_name' = Insert(if_index_to_name, msg.index, msg.name)
    /\ UNCHANGED << current_ips, pending >>
    /\ IF \/ msg.index \notin DOMAIN if_index_to_name
          \/ if_index_to_name[msg.index] # msg.name
       THEN SendEvents(<< LinkChanged(msg.name, msg.up) >>)
       ELSE UNCHANGED << queue, sent >>

\* A DELLINK handler that sends the link event first and the empty address
\* update after it.
HandleDelLinkLinkFirst(index) ==
    /\ NextMessage
    /\ IF index \in DOMAIN if_index_to_name
       THEN LET removed_name == if_index_to_name[index]
            IN  /\ if_index_to_name' = Remove(if_index_to_name, index)
                /\ current_ips' = Remove(current_ips, index)
                /\ SendEvents(<< LinkChanged(removed_name, FALSE) >>)
                /\ pending' = IF index \in DOMAIN current_ips
                              THEN << IpUpdate(removed_name, << >>) >>
                              ELSE << >>
       ELSE UNCHANGED << if_index_to_name, current_ips, queue, sent, pending >>

\* handle_link_change, DELLINK: forget the index and its addresses.  With
\* an address entry there are two sends, one after the other: the empty
\* address update here, the link event when the first send has returned.
HandleDelLink(index) ==
    /\ NextMessage
    /\ IF index \in DOMAIN if_index_to_name
       THEN LET removed_name == if_index_to_name[index]
            IN  /\ if_index_to_name' = Remove(if_index_to_name, index)
                /\ current_ips' = Remove(current_ips, index)
                /\ IF index \in DOMAIN current_ips
                   THEN /\ SendEvents(<< IpUpdate(removed_name, << >>) >>)
                        /\ pending' = << LinkChanged(removed_name, FALSE) >>
                   ELSE /\ SendEvents(<< LinkChanged(removed_name, FALSE) >>)
                        /\ pending' = << >>
       ELSE UNCHANGED << if_index_to_name, current_ips, queue, sent, pending >>

\* handle_link_change, DELLINK: the second send.
SendPending ==
    /\ main_pc = "loop"
    /\ monitor_pc = "listening"
    /\ pending # << >>
    /\ SendEvents(pending)
    /\ pending' = << >>
    /\ UNCHANGED << main_pc, app_config, interface_ips, state_lock, if_config,
                    task, ksets, rejects, failed, externals, kset_type,
                    monitor_pc, if_index_to_name, current_ips, messages,
                    socket_vars >>
    /\ UNCHANGED << docker_vars, main_vars, config_lock >>

\* start, the listen loop: the message stream yields None.  The loop breaks
\* and start returns Ok(()); the task that ran it is over.
StreamEnded ==
    /\ main_pc = "loop"
    /\ monitor_pc = "listening"
    /\ pending = << >>
    /\ monitor_pc' = "ended"
    /\ UNCHANGED << main_pc, app_config, interface_ips, state_lock, if_config,
                    queue, sent, task, ksets, rejects, failed, externals,
                    kset_type, if_index_to_name, current_ips, messages,
                    pending, socket_vars >>
    /\ UNCHANGED << docker_vars, main_vars, config_lock >>

\* handle_netlink_message
HandleNetlinkMessage ==
    \/ \E msg \in AddressMessages : HandleAddressChange(msg, TRUE)
    \/ \E msg \in AddressMessages : HandleAddressChange(msg, FALSE)
    \/ \E msg \in LinkMessages : HandleNewLink(msg)
    \/ \E index \in Indexes : HandleDelLink(index)

(***************************************************************************)
(* DockerMonitor (docker.rs).                                              *)
(***************************************************************************)
\* main: DockerMonitor::new connects to the Docker socket; on Ok its start
\* is spawned, on Err Docker monitoring is disabled.
DockerMonitorStart ==
    /\ main_pc = "loop"
    /\ docker_pc = "spawned"
    /\ docker_pc' \in {"listening", "disabled"}
    /\ UNCHANGED << main_pc, app_config, interface_ips, state_lock, if_config,
                    queue, sent, task, ksets, rejects, failed, externals,
                    kset_type, watcher_vars, socket_vars, container_ips,
                    main_vars, config_lock >>

\* handle_event: a start, stop or die event of a container is sent on.
DockerSend ==
    /\ docker_pc = "listening"
    /\ \E ev \in DockerEvents : Send(ev)

\* A channel without a capacity.
DockerSendBurstUnbounded ==
    /\ main_pc = "loop"
    /\ docker_pc = "listening"
    /\ sent < MaxBurst
    /\ queue' = Append(queue, [id |-> sent + 1, ev |-> ContainerStopped("c1")])
    /\ sent' = sent + 1
    /\ UNCHANGED << main_pc, app_config, interface_ips, state_lock, if_config,
                    task, ksets, rejects, failed, externals, kset_type,
                    watcher_vars, socket_vars, docker_vars, main_vars, config_lock >>

\* handle_event, for a run of stop events of one container: event_tx.send
\* returns when the channel has room.
DockerSendBurst ==
    /\ main_pc = "loop"
    /\ docker_pc = "listening"
    /\ sent < MaxBurst
    /\ Len(queue) < EVENT_CHANNEL_SIZE
    /\ queue' = Append(queue, [id |-> sent + 1, ev |-> ContainerStopped("c1")])
    /\ sent' = sent + 1
    /\ UNCHANGED << main_pc, app_config, interface_ips, state_lock, if_config,
                    task, ksets, rejects, failed, externals, kset_type,
                    watcher_vars, socket_vars, docker_vars, main_vars, config_lock >>

(***************************************************************************)
(* SocketHandler (socket.rs).                                              *)
(***************************************************************************)
\* start: bind the listener.  Its error ends the socket task, and main logs
\* it.
SocketStart ==
    /\ main_pc = "loop"
    /\ socket_pc = "spawned"
    /\ socket_pc' \in {"listening", "failed"}
    /\ UNCHANGED << main_pc, app_config, interface_ips, state_lock, if_config,
                    queue, sent, task, ksets, rejects, failed, externals,
                    kset_type, watcher_vars, conn >>
    /\ UNCHANGED << docker_vars, main_vars, config_lock >>

\* start: accept a connection and spawn handle_connection, which reads one
\* line.
Accept(c) ==
    /\ socket_pc = "listening"
    /\ conn[c].pc = "none"
    /\ \A b \in ConnIds : b < c => conn[b].pc # "none"
    /\ \E line \in Lines : conn' = [conn EXCEPT ![c].pc = "read", ![c].line = line]
    /\ UNCHANGED << main_pc, app_config, interface_ips, state_lock, if_config,
                    queue, sent, task, ksets, rejects, failed, externals,
                    kset_type, watcher_vars, socket_pc >>
    /\ UNCHANGED << docker_vars, main_vars, config_lock >>

\* start and handle_connection, for a client that sends ping or shutdown.
AcceptCommand(c) ==
    /\ socket_pc = "listening"
    /\ conn[c].pc = "none"
    /\ \A b \in ConnIds : b < c => conn[b].pc # "none"
    /\ \E line \in CommandLines :
          conn' = [conn EXCEPT ![c].pc = "read", ![c].line = line]
    /\ UNCHANGED << main_pc, app_config, interface_ips, state_lock, if_config,
                    queue, sent, task, ksets, rejects, failed, externals,
                    kset_type, watcher_vars, socket_pc >>
    /\ UNCHANGED << docker_vars, main_vars, config_lock >>

\* start and handle_connection, for a client that writes its lines at once:
\* read_line returns the first, the others stay in the stream.
AcceptSession(c) ==
    /\ socket_pc = "listening"
    /\ conn[c].pc = "none"
    /\ \A b \in ConnIds : b < c => conn[b].pc # "none"
    /\ \E input \in ClientInputs :
          conn' = [conn EXCEPT ![c].pc = "read", ![c].line = Head(input),
                               ![c].unread = Tail(input)]
    /\ UNCHANGED << main_pc, app_config, interface_ips, state_lock, if_config,
                    queue, sent, task, ksets, rejects, failed, externals,
                    kset_type, watcher_vars, socket_pc >>
    /\ UNCHANGED << docker_vars, main_vars, config_lock >>

\* handle_connection: the event of a command, NoEvent for any other text.
CommandEvent(command) ==
    CASE command = << "reload" >> -> Reload
      [] command = << "status" >> -> Status
      [] command = << "ping" >> -> Ping
      [] command = << "shutdown" >> -> Shutdown
      [] OTHER -> NoEvent

\* handle_connection, from the line read to the event sent: nothing at end
\* of file, the error line for an unknown command, else the command's event
\* is sent (with a new reply slot for status and ping); the send fails once
\* the receiver is dropped.
HandleConnection(c) ==
    /\ conn[c].pc = "read"
    /\ LET line == conn[c].line
           event == CommandEvent(Trim(line))
       IN  IF line = << >>
           THEN /\ conn' = [conn EXCEPT ![c].pc = "done"]
                /\ UNCHANGED << queue, sent >>
           ELSE IF event = NoEvent
           THEN /\ conn' = [conn EXCEPT ![c].pc = "done", ![c].reply = UnknownCommand]
                /\ UNCHANGED << queue, sent >>
           ELSE IF main_pc = "exited"
           THEN /\ conn' = [conn EXCEPT ![c].pc = "err"]
                /\ UNCHANGED << queue, sent >>
           ELSE /\ SendEvents(<< event >>)
                /\ conn' = [conn EXCEPT
                               ![c].ev_id = sent + 1,
                               ![c].slot = IF event.type \in {"Status", "Ping"}
                                           THEN "open" ELSE "none",
                               ![c].pc = IF event.type \in {"Status", "Ping"}
                                         THEN "wait" ELSE "sent"]
    /\ UNCHANGED << main_pc, app_config, interface_ips, state_lock, if_config,
                    task, ksets, rejects, failed, externals, kset_type,
                    watcher_vars, socket_pc >>
    /\ UNCHANGED << docker_vars, main_vars, config_lock >>

\* handle_connection, reload and shutdown: the acknowledgement, after the
\* send.
WriteAck(c) ==
    /\ conn[c].pc = "sent"
    /\ conn' = [conn EXCEPT
                   ![c].pc = "done",
                   ![c].reply = IF Trim(conn[c].line) = << "reload" >>
                                THEN OkReload ELSE OkShutdown]
    /\ UNCHANGED << main_pc, app_config, interface_ips, state_lock, if_config,
                    queue, sent, task, ksets, rejects, failed, externals,
                    kset_type, watcher_vars, socket_pc >>
    /\ UNCHANGED << docker_vars, main_vars, config_lock >>

\* A handle_connection that writes PONG without awaiting its reply slot.
WriteReplyWithoutAwait(c) ==
    /\ conn[c].pc = "wait"
    /\ conn' = [conn EXCEPT ![c].pc = "done", ![c].reply = Pong \o << "\n" >>]
    /\ UNCHANGED << main_pc, app_config, interface_ips, state_lock, if_config,
                    queue, sent, task, ksets, rejects, failed, externals,
                    kset_type, watcher_vars, socket_pc >>
    /\ UNCHANGED << docker_vars, main_vars, config_lock >>

\* handle_connection, status and ping: rx.await gave Ok(response); it is
\* written with a newline.
WriteReply(c) ==
    /\ conn[c].pc = "wait"
    /\ conn[c].slot = "sent"
    /\ conn' = [conn EXCEPT ![c].pc = "done",
                            ![c].reply = conn[c].payload \o << "\n" >>]
    /\ UNCHANGED << main_pc, app_config, interface_ips, state_lock, if_config,
                    queue, sent, task, ksets, rejects, failed, externals,
                    kset_type, watcher_vars, socket_pc >>
    /\ UNCHANGED << docker_vars, main_vars, config_lock >>

\* handle_connection, status and ping: rx.await gave Err, the sender having
\* been dropped.
WriteReplyErr(c) ==
    /\ conn[c].pc = "wait"
    /\ conn[c].slot = "closed"
    /\ conn' = [conn EXCEPT ![c].pc = "err", ![c].reply = ReplyError]
    /\ UNCHANGED << main_pc, app_config, interface_ips, state_lock, if_config,
                    queue, sent, task, ksets, rejects, failed, externals,
                    kset_type, watcher_vars, socket_pc >>
    /\ UNCHANGED << docker_vars, main_vars, config_lock >>

\* The task of handle_connection is spawned on the runtime of
\* #[tokio::main], which is shut down when main returns: a task that has
\* not returned by then is dropped at its await, and its stream is closed
\* with nothing more written.
ConnectionCancelled(c) ==
    /\ main_pc = "exited"
    /\ conn[c].pc \in {"read", "sent", "wait"}
    /\ conn' = [conn EXCEPT ![c].pc = "cancelled"]
    /\ UNCHANGED << main_pc, app_config, interface_ips, state_lock, if_config,
                    queue, sent, task, ksets, rejects, failed, externals,
                    kset_type, watcher_vars, socket_pc >>
    /\ UNCHANGED << docker_vars, main_vars, config_lock >>

(***************************************************************************)
(* main(): the event loop.                                                 *)
(***************************************************************************)
\* SystemEvent::Network: spawn handle_network_event.
RecvNetwork ==
    /\ main_pc = "loop"
    /\ queue # << >>
    /\ Head(queue).ev.type \in {"IpUpdate", "LinkChanged"}
    /\ task' = [task EXCEPT ![Head(queue).id] = Spawned(Head(queue).ev, ConfigErr)]
    /\ queue' = Tail(queue)
    /\ UNCHANGED << main_pc, app_config, interface_ips, state_lock, if_config,
                    sent, ksets, rejects, failed, externals >>
    /\ UNCHANGED << kset_type, watcher_vars, socket_vars >>
    /\ UNCHANGED << docker_vars, main_vars, config_lock >>

\* ControlCommand::Reload: load the config, then spawn the reload task.
RecvReload ==
    /\ main_pc = "loop"
    /\ queue # << >>
    /\ Head(queue).ev.type = "Reload"
    /\ \E config_result \in ConfigResults :
          task' = [task EXCEPT ![Head(queue).id] = Spawned(Head(queue).ev, config_result)]
    /\ queue' = Tail(queue)
    /\ UNCHANGED << main_pc, app_config, interface_ips, state_lock, if_config,
                    sent, ksets, rejects, failed, externals >>
    /\ UNCHANGED << kset_type, watcher_vars, socket_vars >>
    /\ UNCHANGED << docker_vars, main_vars, config_lock >>

\* SystemEvent::Docker: what the arm does to container_ips.
ApplyDockerEvent(ips, ev) ==
    IF ev.type = "ContainerStarted" /\ ev.ips # << >>
    THEN Insert(ips, ev.name, ev.ips[1])
    ELSE IF ev.type = "ContainerStopped" THEN Remove(ips, ev.name)
    ELSE ips

\* A Docker arm that also files the container's address under the
\* container's id in interface_ips.
RecvDockerIntoInterfaces ==
    /\ main_pc = "loop"
    /\ queue # << >>
    /\ Head(queue).ev.type \in {"ContainerStarted", "ContainerStopped"}
    /\ state_lock = {}
    /\ container_ips' = ApplyDockerEvent(container_ips, Head(queue).ev)
    /\ interface_ips' = Insert(interface_ips, Head(queue).ev.name, Head(queue).ev.ips)
    /\ queue' = Tail(queue)
    /\ UNCHANGED << main_pc, app_config, state_lock, if_config,
                    sent, task, ksets, rejects, failed, externals, kset_type,
                    watcher_vars, socket_vars, docker_pc, main_vars, config_lock >>

\* SystemEvent::Docker: lock the state and update container_ips.
RecvDocker ==
    /\ main_pc = "loop"
    /\ queue # << >>
    /\ Head(queue).ev.type \in {"ContainerStarted", "ContainerStopped"}
    /\ state_lock = {}
    /\ container_ips' = ApplyDockerEvent(container_ips, Head(queue).ev)
    /\ queue' = Tail(queue)
    /\ UNCHANGED << main_pc, app_config, interface_ips, state_lock, if_config,
                    sent, task, ksets, rejects, failed, externals, kset_type,
                    watcher_vars, socket_vars, docker_pc, main_vars, config_lock >>

\* response_tx.send(payload), for the connection that sent event `id`.
Fulfil(id, payload) ==
    [c \in ConnIds |->
        IF conn[c].ev_id # id THEN conn[c]
        ELSE IF conn[c].slot = "open"
        THEN [conn[c] EXCEPT !.slot = "sent", !.payload = payload, !.sends = @ + 1]
        ELSE [conn[c] EXCEPT !.sends = @ + 1]]

\* ControlCommand::Status: lock the state, format the report, send it.
RecvStatus ==
    /\ main_pc = "loop"
    /\ queue # << >>
    /\ Head(queue).ev.type = "Status"
    /\ state_lock = {}
    /\ conn' = Fulfil(Head(queue).id, StatusReport(interface_ips))
    /\ queue' = Tail(queue)
    /\ UNCHANGED << main_pc, app_config, interface_ips, state_lock, if_config,
                    sent, task, ksets, rejects, failed, externals, kset_type,
                    watcher_vars, socket_pc >>
    /\ UNCHANGED << docker_vars, main_vars, config_lock >>

\* ControlCommand::Ping: send PONG.
RecvPing ==
    /\ main_pc = "loop"
    /\ queue # << >>
    /\ Head(queue).ev.type = "Ping"
    /\ conn' = Fulfil(Head(queue).id, Pong)
    /\ queue' = Tail(queue)
    /\ UNCHANGED << main_pc, app_config, interface_ips, state_lock, if_config,
                    sent, task, ksets, rejects, failed, externals, kset_type,
                    watcher_vars, socket_pc >>
    /\ UNCHANGED << docker_vars, main_vars, config_lock >>

\* A loop that takes the Shutdown command and goes on.
RecvShutdownWithoutBreak ==
    /\ main_pc = "loop"
    /\ queue # << >>
    /\ Head(queue).ev.type = "Shutdown"
    /\ main_pc' = "loop"
    /\ queue' = Tail(queue)
    /\ UNCHANGED << app_config, interface_ips, state_lock, if_config, sent,
                    task, ksets, rejects, failed, externals, kset_type,
                    watcher_vars, socket_vars >>
    /\ UNCHANGED << docker_vars, main_vars, config_lock >>

\* ControlCommand::Shutdown: break.
RecvShutdown ==
    /\ main_pc = "loop"
    /\ queue # << >>
    /\ Head(queue).ev.type = "Shutdown"
    /\ main_pc' = "shutdown"
    /\ queue' = Tail(queue)
    /\ UNCHANGED << app_config, interface_ips, state_lock, if_config, sent,
                    task, ksets, rejects, failed, externals, kset_type,
                    watcher_vars, socket_vars >>
    /\ UNCHANGED << docker_vars, main_vars, config_lock >>

\* A SIGTERM or a SIGINT is delivered to the process; the signal streams
\* exist from the start of main.
SignalArrives ==
    /\ main_pc # "exited"
    /\ signal = "none"
    /\ signal' = "pending"
    /\ UNCHANGED << main_pc, app_config, interface_ips, state_lock, if_config,
                    queue, sent, task, ksets, rejects, failed, externals,
                    kset_type, watcher_vars, socket_vars, docker_vars,
                    config_file, main_result, config_lock >>

\* select!: sigterm.recv() or sigint.recv(): break.
RecvSignal ==
    /\ main_pc = "loop"
    /\ signal = "pending"
    /\ main_pc' = "shutdown"
    /\ signal' = "taken"
    /\ UNCHANGED << app_config, interface_ips, state_lock, if_config, queue,
                    sent, task, ksets, rejects, failed, externals, kset_type,
                    watcher_vars, socket_vars, docker_vars, config_file,
                    main_result, config_lock >>

\* A main that returns without aborting the monitor task.
MainReturnsWithoutAbort ==
    /\ main_pc = "shutdown"
    /\ main_pc' = "exited"
    /\ main_result' = "ok"
    /\ socket_pc' = IF socket_pc = "failed" THEN "failed" ELSE "aborted"
    /\ docker_pc' = IF docker_pc = "disabled" THEN "disabled" ELSE "aborted"
    /\ queue' = << >>
    /\ UNCHANGED << app_config, interface_ips, state_lock, if_config, sent,
                    task, ksets, rejects, failed, externals, kset_type,
                    watcher_vars, conn, container_ips, config_file, signal, config_lock >>

\* After the loop: the monitor, the socket and the Docker task are aborted
\* and main returns Ok, which drops the receiver with the events still
\* queued and, with them, their reply slots.
MainReturns ==
    /\ main_pc = "shutdown"
    /\ main_pc' = "exited"
    /\ main_result' = "ok"
    /\ monitor_pc' = "aborted"
    /\ socket_pc' = IF socket_pc = "failed" THEN "failed" ELSE "aborted"
    /\ docker_pc' = IF docker_pc = "disabled" THEN "disabled" ELSE "aborted"
    /\ conn' = [c \in ConnIds |->
                  IF /\ conn[c].slot = "open"
                     /\ \E k \in DOMAIN queue : queue[k].id = conn[c].ev_id
                  THEN [conn[c] EXCEPT !.slot = "closed"]
                  ELSE conn[c]]
    /\ queue' = << >>
    /\ UNCHANGED << app_config, interface_ips, state_lock, if_config, sent,
                    task, ksets, rejects, failed, externals, kset_type,
                    if_index_to_name, current_ips, messages, pending,
                    container_ips, config_file, signal, config_lock >>

(***************************************************************************)
(* handle_network_event.                                                   *)
(***************************************************************************)
\* The mutation of interface_ips.
ApplyEvent(ips, ev) ==
    IF ev.type = "IpUpdate" THEN Insert(ips, ev.name, ev.ips)
    ELSE IF ev.type = "LinkChanged" /\ ~ev.is_up THEN Remove(ips, ev.name)
    ELSE ips

\* Lock the state, mutate it, clone the network state, drop the lock.
HandleNetworkEvent(t) ==
    /\ task[t].pc = "spawned"
    /\ task[t].ev.type \in {"IpUpdate", "LinkChanged"}
    /\ state_lock = {}
    /\ interface_ips' = ApplyEvent(interface_ips, task[t].ev)
    /\ task' = [task EXCEPT ![t].pc = "apply", ![t].snap = interface_ips']
    /\ UNCHANGED << main_pc, app_config, state_lock, if_config, queue, sent,
                    ksets, rejects, failed, externals >>
    /\ UNCHANGED << kset_type, watcher_vars, socket_vars >>
    /\ UNCHANGED << docker_vars, main_vars, config_lock >>

(***************************************************************************)
(* The reload task.                                                        *)
(***************************************************************************)
\* Ok(new_config): lock the state and store the config; apply_rules follows
\* with the lock held, reading the state's own network_state.
ReloadStore(t) ==
    /\ task[t].pc = "spawned"
    /\ task[t].ev.type = "Reload"
    /\ task[t].cfg.ok
    /\ state_lock = {}
    /\ state_lock' = {t}
    /\ app_config' = task[t].cfg.interfaces
    /\ task' = [task EXCEPT ![t].pc = "apply", ![t].snap = interface_ips,
                             ![t].old_cfg = app_config]
    /\ UNCHANGED << main_pc, interface_ips, if_config, queue, sent, ksets,
                    rejects, failed, externals >>
    /\ UNCHANGED << kset_type, watcher_vars, socket_vars >>
    /\ UNCHANGED << docker_vars, main_vars, config_lock >>

\* A reload task that, on Err, stores an empty config and goes on to
\* apply_rules.
ReloadFailedStoresDefault(t) ==
    /\ task[t].pc = "spawned"
    /\ task[t].ev.type = "Reload"
    /\ ~task[t].cfg.ok
    /\ state_lock = {}
    /\ state_lock' = {t}
    /\ app_config' = << >>
    /\ task' = [task EXCEPT ![t].pc = "apply", ![t].snap = interface_ips,
                             ![t].old_cfg = app_config]
    /\ UNCHANGED << main_pc, interface_ips, if_config, queue, sent, ksets,
                    rejects, failed, externals >>
    /\ UNCHANGED << kset_type, watcher_vars, socket_vars >>
    /\ UNCHANGED << docker_vars, main_vars, config_lock >>

\* Err(e): logged.
ReloadFailed(t) ==
    /\ task[t].pc = "spawned"
    /\ task[t].ev.type = "Reload"
    /\ ~task[t].cfg.ok
    /\ task' = [task EXCEPT ![t] = Finished(task[t], "none")]
    /\ UNCHANGED << main_pc, app_config, interface_ips, state_lock, if_config,
                    queue, sent, ksets, rejects, failed, externals >>
    /\ UNCHANGED << kset_type, watcher_vars, socket_vars >>
    /\ UNCHANGED << docker_vars, main_vars, config_lock >>

(***************************************************************************)
(* apply_rules, called by a task.                                          *)
(***************************************************************************)
\* apply_rules returns: the reload task drops its guard after it.
Return(t, res) ==
    /\ task' = [task EXCEPT ![t] = Finished(task[t], res)]
    /\ state_lock' = state_lock \ {t}

\* apply_rules: self.config.lock().await has returned; the task holds the
\* config mutex and has not computed zone_to_ips yet.
ApplyRulesLock(t) ==
    /\ task[t].pc = "apply"
    /\ config_lock = {}
    /\ config_lock' = {t}
    /\ UNCHANGED << main_pc, app_config, interface_ips, state_lock, if_config,
                    queue, sent, task, ksets, rejects, failed, externals >>
    /\ UNCHANGED << kset_type, watcher_vars, socket_vars >>
    /\ UNCHANGED << docker_vars, main_vars >>

\* An apply_rules that goes on to its flush with the config mutex held and
\* never drops it.
ApplyRulesFlushKeepsLock(t) ==
    /\ task[t].pc = "apply"
    /\ config_lock \subseteq {t}
    /\ config_lock' = {t}
    /\ LET zone_to_ips == ZoneToIps(if_config, task[t].snap)
           flush == FlushCommands(zone_to_ips)
           after == [task EXCEPT ![t].pc = "add", ![t].target = zone_to_ips]
       IN  \/ /\ flush = {}
              /\ task' = after
              /\ UNCHANGED << state_lock, ksets, rejects, failed >>
           \/ /\ flush # {}
              /\ Accepted(KernelFlushValid(ksets, flush), KernelFlush(ksets, flush))
              /\ task' = after
              /\ UNCHANGED state_lock
           \/ /\ flush # {}
              /\ Rejected(KernelFlushValid(ksets, flush))
              /\ Return(t, "err")
    /\ UNCHANGED << main_pc, app_config, interface_ips, if_config, queue, sent,
                    externals >>
    /\ UNCHANGED << kset_type, watcher_vars, socket_vars >>
    /\ UNCHANGED << docker_vars, main_vars >>

\* Compute zone_to_ips from the config and the state passed in, under the
\* config mutex (taken here unless the task holds it already), drop the
\* mutex and submit the flush commands, if there are any.
ApplyRulesFlush(t) ==
    /\ task[t].pc = "apply"
    /\ config_lock \subseteq {t}
    /\ config_lock' = {}
    /\ LET zone_to_ips == ZoneToIps(if_config, task[t].snap)
           flush == FlushCommands(zone_to_ips)
           after == [task EXCEPT ![t].pc = "add", ![t].target = zone_to_ips]
       IN  \/ /\ flush = {}
              /\ task' = after
              /\ UNCHANGED << state_lock, ksets, rejects, failed >>
           \/ /\ flush # {}
              /\ Accepted(KernelFlushValid(ksets, flush), KernelFlush(ksets, flush))
              /\ task' = after
              /\ UNCHANGED state_lock
           \/ /\ flush # {}
              /\ Rejected(KernelFlushValid(ksets, flush))
              /\ Return(t, "err")
    /\ UNCHANGED << main_pc, app_config, interface_ips, if_config, queue, sent,
                    externals >>
    /\ UNCHANGED << kset_type, watcher_vars, socket_vars >>
    /\ UNCHANGED << docker_vars, main_vars >>

\* Submit the add batch, if it holds anything.
ApplyRulesAdd(t) ==
    /\ task[t].pc = "add"
    /\ LET batch == AddBatch(task[t].target)
       IN  \/ /\ batch = EmptyMap
              /\ Return(t, "ok")
              /\ UNCHANGED << ksets, rejects, failed >>
           \/ /\ batch # EmptyMap
              /\ Accepted(KernelAddValid(ksets, batch), KernelAddElements(ksets, batch))
              /\ Return(t, "ok")
           \/ /\ batch # EmptyMap
              /\ Rejected(KernelAddValid(ksets, batch))
              /\ Return(t, "err")
    /\ UNCHANGED << main_pc, app_config, interface_ips, if_config, queue, sent,
                    externals >>
    /\ UNCHANGED << kset_type, watcher_vars, socket_vars >>
    /\ UNCHANGED << docker_vars, main_vars, config_lock >>

(***************************************************************************)
(* Somebody else changes a set of the table.                               *)
(***************************************************************************)
ExternalChange ==
    /\ externals < MaxExternal
    /\ \E s \in DOMAIN ksets : \E ip \in Addrs :
          /\ ip.fam = SetFamily(s)
          /\ ksets' = [ksets EXCEPT ![s] =
                          IF ip \in @ THEN @ \ {ip} ELSE @ \cup {ip}]
    /\ externals' = externals + 1
    /\ UNCHANGED << main_pc, app_config, interface_ips, state_lock, if_config,
                    queue, sent, task, rejects, failed >>
    /\ UNCHANGED << kset_type, watcher_vars, socket_vars >>
    /\ UNCHANGED << docker_vars, main_vars, config_lock >>

Next ==
    \/ LoadRules
    \/ InitialApply
    \/ WatcherSend
    \/ SocketSendReload
    \/ RecvNetwork
    \/ RecvReload
    \/ \E t \in TaskIds : HandleNetworkEvent(t)
    \/ \E t \in TaskIds : ReloadStore(t)
    \/ \E t \in TaskIds : ReloadFailed(t)
    \/ \E t \in TaskIds : ApplyRulesFlush(t)
    \/ \E t \in TaskIds : ApplyRulesAdd(t)

Spec == Init /\ [][Next]_vars

\* The schedules in which the event loop takes the next event only when the
\* handler tasks spawned so far have returned.
Idle == \A t \in TaskIds : task[t].pc \in {"none", "done"}
NextSerial ==
    \/ LoadRules
    \/ InitialApply
    \/ WatcherSend
    \/ SocketSendReload
    \/ Idle /\ RecvNetwork
    \/ Idle /\ RecvReload
    \/ \E t \in TaskIds : HandleNetworkEvent(t)
    \/ \E t \in TaskIds : ReloadStore(t)
    \/ \E t \in TaskIds : ReloadFailed(t)
    \/ \E t \in TaskIds : ApplyRulesFlush(t)
    \/ \E t \in TaskIds : ApplyRulesAdd(t)
SpecSerial == Init /\ [][NextSerial]_vars

\* The daemon with its link/address watcher as the producer, one task at a
\* time.
NextWatcher ==
    \/ LoadRules
    \/ InitialApply
    \/ NetworkMonitorStart
    \/ HandleNetlinkMessage
    \/ SendPending
    \/ StreamEnded
    \/ Idle /\ RecvNetwork
    \/ \E t \in TaskIds : HandleNetworkEvent(t)
    \/ \E t \in TaskIds : ApplyRulesFlush(t)
    \/ \E t \in TaskIds : ApplyRulesAdd(t)
SpecWatcher == Init /\ [][NextWatcher]_vars

\* The daemon with its control socket, one handler task at a time.
NextSocket ==
    \/ LoadRules
    \/ InitialApply
    \/ WatcherSendUpdate
    \/ SocketStart
    \/ \E c \in ConnIds : Accept(c)
    \/ \E c \in ConnIds : HandleConnection(c)
    \/ \E c \in ConnIds : WriteAck(c)
    \/ \E c \in ConnIds : WriteReply(c)
    \/ \E c \in ConnIds : WriteReplyErr(c)
    \/ Idle /\ RecvNetwork
    \/ Idle /\ RecvReload
    \/ RecvStatus
    \/ RecvPing
    \/ RecvShutdown
    \/ MainReturns
    \/ \E t \in TaskIds : HandleNetworkEvent(t)
    \/ \E t \in TaskIds : ReloadStore(t)
    \/ \E t \in TaskIds : ReloadFailed(t)
    \/ \E t \in TaskIds : ApplyRulesFlush(t)
    \/ \E t \in TaskIds : ApplyRulesAdd(t)
SpecSocket == Init /\ [][NextSocket]_vars

\* The daemon with its control socket and clients that write one line or
\* two on a connection, one handler task at a time.
NextSession ==
    \/ LoadRules
    \/ InitialApply
    \/ WatcherSendUpdate
    \/ SocketStart
    \/ \E c \in ConnIds : AcceptSession(c)
    \/ \E c \in ConnIds : HandleConnection(c)
    \/ \E c \in ConnIds : WriteAck(c)
    \/ \E c \in ConnIds : WriteReply(c)
    \/ Idle /\ RecvNetwork
    \/ Idle /\ RecvReload
    \/ RecvStatus
    \/ RecvPing
    \/ \E t \in TaskIds : HandleNetworkEvent(t)
    \/ \E t \in TaskIds : ReloadStore(t)
    \/ \E t \in TaskIds : ReloadFailed(t)
    \/ \E t \in TaskIds : ApplyRulesFlush(t)
    \/ \E t \in TaskIds : ApplyRulesAdd(t)
SpecSession == Init /\ [][NextSession]_vars

\* The daemon shut down, by a shutdown command or by a signal, while
\* clients ping it and the watcher sends an address update.
NextShutdown ==
    \/ LoadRules
    \/ InitialApply
    \/ WatcherSendUpdate
    \/ DockerMonitorStart
    \/ SocketStart
    \/ \E c \in ConnIds : AcceptCommand(c)
    \/ \E c \in ConnIds : HandleConnection(c)
    \/ \E c \in ConnIds : WriteAck(c)
    \/ \E c \in ConnIds : WriteReply(c)
    \/ \E c \in ConnIds : WriteReplyErr(c)
    \/ Idle /\ RecvNetwork
    \/ RecvPing
    \/ RecvShutdown
    \/ SignalArrives
    \/ RecvSignal
    \/ MainReturns
    \/ \E t \in TaskIds : HandleNetworkEvent(t)
    \/ \E t \in TaskIds : ApplyRulesFlush(t)
    \/ \E t \in TaskIds : ApplyRulesAdd(t)
SpecShutdown == Init /\ [][NextShutdown]_vars

\* The same, main and every spawned task being scheduled while it can run,
\* and select! taking a branch that stays ready.
SpecShutdownFair ==
    /\ SpecShutdown
    /\ WF_vars(LoadRules)
    /\ WF_vars(InitialApply)
    /\ WF_vars(Idle /\ RecvNetwork)
    /\ WF_vars(RecvPing)
    /\ WF_vars(RecvShutdown)
    /\ WF_vars(RecvSignal)
    /\ WF_vars(MainReturns)
    /\ \A t \in TaskIds : WF_vars(HandleNetworkEvent(t))
    /\ \A t \in TaskIds : WF_vars(ApplyRulesFlush(t))
    /\ \A t \in TaskIds : WF_vars(ApplyRulesAdd(t))

\* The daemon and its shutdown, with the end of the runtime: a connection
\* task still running when main has returned is dropped, unless it gets to
\* run first.
NextExit ==
    \/ NextShutdown
    \/ \E c \in ConnIds : ConnectionCancelled(c)
SpecExit == Init /\ [][NextExit]_vars

\* The same under the scheduling of SpecShutdownFair, a connection task
\* whose reply slot is settled being either run or dropped.
SpecExitFair ==
    /\ SpecExit
    /\ WF_vars(LoadRules)
    /\ WF_vars(InitialApply)
    /\ WF_vars(Idle /\ RecvNetwork)
    /\ WF_vars(RecvPing)
    /\ WF_vars(RecvShutdown)
    /\ WF_vars(RecvSignal)
    /\ WF_vars(MainReturns)
    /\ \A t \in TaskIds : WF_vars(HandleNetworkEvent(t))
    /\ \A t \in TaskIds : WF_vars(ApplyRulesFlush(t))
    /\ \A t \in TaskIds : WF_vars(ApplyRulesAdd(t))
    /\ \A c \in ConnIds : WF_vars(WriteReply(c))
    /\ \A c \in ConnIds : WF_vars(WriteReplyErr(c) \/ ConnectionCancelled(c))

\* The daemon under a run of Docker events long enough to fill the event
\* channel, and shut down by a signal.
NextBurst ==
    \/ LoadRules
    \/ InitialApply
    \/ DockerMonitorStart
    \/ DockerSendBurst
    \/ RecvDocker
    \/ SignalArrives
    \/ RecvSignal
    \/ MainReturns
SpecBurst == Init /\ [][NextBurst]_vars

\* The daemon with the Docker monitor, the watcher and a reloading client
\* as producers.
NextDocker ==
    \/ LoadRules
    \/ InitialApply
    \/ WatcherSendUpdate
    \/ SocketSendReload
    \/ DockerMonitorStart
    \/ DockerSend
    \/ RecvNetwork
    \/ RecvReload
    \/ RecvDocker
    \/ \E t \in TaskIds : HandleNetworkEvent(t)
    \/ \E t \in TaskIds : ReloadStore(t)
    \/ \E t \in TaskIds : ReloadFailed(t)
    \/ \E t \in TaskIds : ApplyRulesFlush(t)
    \/ \E t \in TaskIds : ApplyRulesAdd(t)
SpecDocker == Init /\ [][NextDocker]_vars

\* The same, the config mutex of apply_rules being taken in a step of its
\* own, so that a task is seen holding it.
NextLocks ==
    \/ NextDocker
    \/ \E t \in TaskIds : ApplyRulesLock(t)
SpecLocks == Init /\ [][NextLocks]_vars

\* The same, every task that can run in apply_rules being scheduled.
SpecLocksFair ==
    /\ SpecLocks
    /\ \A t \in TaskIds : WF_vars(ApplyRulesFlush(t))
    /\ \A t \in TaskIds : WF_vars(ApplyRulesAdd(t))

\* The daemon started with any of the config files, one task at a time.
InitAnyConfig == \E interfaces \in ConfigFiles : InitWith(interfaces)
SpecAnyConfig == InitAnyConfig /\ [][NextSerial]_vars

\* The daemon from load_initial_config on, with any candidate config file,
\* one task at a time.
NextStartup == LoadInitialConfig \/ NextSerial
SpecStartup == InitStartup /\ [][NextStartup]_vars

\* The daemon beside somebody who changes the sets.
NextExternal == Next \/ ExternalChange
SpecExternal == Init /\ [][NextExternal]_vars

(***************************************************************************)
(* What the specification says of the state, for the properties below.     *)
(***************************************************************************)
\* The event queue is empty and no handler is in progress.
Quiescent ==
    /\ main_pc = "loop"
    /\ queue = << >>
    /\ \A t \in TaskIds : task[t].pc \in {"none", "done"}

\* ZoneProjection: for a zone, the union of the addresses of every interface
\* the config binds to it.
ZoneProjection(cfg, ips, z) ==
    UNION {Range(ips[cfg[i].name]) :
              i \in {j \in DOMAIN cfg : /\ cfg[j].nftables_zone = z
                                        /\ cfg[j].name \in DOMAIN ips}}

\* The kernel holds the two sets of zone z, equal to the projection.
KernelHolds(ks, cfg, ips, z) ==
    \A f \in Families :
        /\ SetName(z, f) \in DOMAIN ks
        /\ ks[SetName(z, f)] = FamilyElements(ZoneProjection(cfg, ips, z), f)

\* The event of task t mutates the State Store.
HasMutation(t) ==
    \/ task[t].ev.type = "IpUpdate"
    \/ task[t].ev.type = "LinkChanged" /\ ~task[t].ev.is_up
    \/ task[t].ev.type = "Reload" /\ task[t].cfg.ok
\* The State Store mutation of task t is done (it is one step).
Mutated(t) == HasMutation(t) /\ task[t].pc \in {"apply", "add", "done"}

\* Task t is the only handler in progress.
Alone(t) == \A u \in TaskIds \ {t} : task[u].pc \in {"none", "done"}

\* apply_rules of task t returns Ok in this step, and the kernel has accepted
\* every transaction so far.
ReturnsOk(t) ==
    /\ task[t].pc \in {"apply", "add"}
    /\ task'[t].pc = "done"
    /\ task'[t].res = "ok"
    /\ ~failed'

Max(S) == CHOOSE x \in S : \A y \in S : y <= x

(***************************************************************************)
(* C1.  The last address update sent for an interface wins: once every     *)
(* event is handled, interface_ips[I] is the list of the last IpUpdate     *)
(* sent for I (the events for I being address updates only), whatever the  *)
(* schedule of the handler tasks.                                          *)
(***************************************************************************)
C1_LastUpdateWins ==
    Quiescent =>
        \A I \in Names :
            LET updates == {t \in TaskIds : /\ task[t].ev.type = "IpUpdate"
                                            /\ task[t].ev.name = I}
                links == {t \in TaskIds : /\ task[t].ev.type = "LinkChanged"
                                          /\ task[t].ev.name = I}
            IN  (updates # {} /\ links = {}) =>
                    /\ I \in DOMAIN interface_ips
                    /\ interface_ips[I] = task[Max(updates)].ev.ips

(***************************************************************************)
(* C2.  Event-loop FIFO: of two events that mutate the State Store, the    *)
(* one sent first has its mutation done before the mutation of the other   *)
(* begins.                                                                 *)
(***************************************************************************)
C2_MutationsInSendOrder ==
    \A a, b \in TaskIds :
        (a < b /\ task[a].pc # "none" /\ HasMutation(a) /\ Mutated(b)) => Mutated(a)

(***************************************************************************)
(* C3.  When the queue is empty, no handler is in progress and no          *)
(* transaction was rejected, the two kernel sets of every configured zone  *)
(* equal the projection of the State Store.                                *)
(***************************************************************************)
C3_KernelEqualsProjection ==
    (Quiescent /\ ~failed) =>
        \A z \in UniqueZones(app_config) :
            KernelHolds(ksets, app_config, interface_ips, z)

(***************************************************************************)
(* C4.  A projection is one all-or-nothing transaction: the step in which  *)
(* apply_rules first submits to the kernel either leaves every set as it   *)
(* was (rejected) or leaves every set of the target holding its target     *)
(* addresses; no state has a set flushed with its addresses still to come. *)
(***************************************************************************)
C4_ProjectionIsOneTransaction ==
    [][\A t \in TaskIds :
          (task[t].pc = "apply" /\ task'[t].pc # "apply") =>
              \/ ksets' = ksets
              \/ LET zone_to_ips == ZoneToIps(if_config, task[t].snap)
                 IN  \A z \in DOMAIN zone_to_ips : \A f \in Families :
                        ksets'[SetName(z, f)] = FamilyElements(zone_to_ips[z], f)]_vars

(***************************************************************************)
(* C5.  Flush+add round trip: when apply_rules returns Ok, whatever the    *)
(* sets held before, both sets of every zone of the config equal the       *)
(* projection of the network state it was given.                           *)
(***************************************************************************)
C5_RoundTrip ==
    [][\A t \in TaskIds :
          (ReturnsOk(t) /\ Alone(t)) =>
              \A z \in UniqueZones(if_config) :
                  KernelHolds(ksets', if_config, task[t].snap, z)]_vars

(***************************************************************************)
(* C6.  The Projector serializes with itself: no two projections are       *)
(* between their flush and their add at the same time.                     *)
(***************************************************************************)
C6_OneProjectionAtATime ==
    \A t, u \in TaskIds :
        (t # u /\ task[t].pc = "add" /\ FlushCommands(task[t].target) # {}) =>
            ~(task[u].pc = "add" /\ FlushCommands(task[u].target) # {})

(***************************************************************************)
(* C7.  The target of every projection holds every zone of the config,     *)
(* also a zone none of whose interfaces has an entry in interface_ips, so  *)
(* that both its sets are flushed.                                         *)
(***************************************************************************)
C7_TargetHoldsEveryZone ==
    \A t \in TaskIds :
        task[t].pc = "add" =>
            /\ DOMAIN task[t].target = UniqueZones(if_config)
            /\ FlushCommands(task[t].target) = RequiredSets(if_config)

(***************************************************************************)
(* C8.  Handling LinkChanged{name: I, is_up: false} removes the entry of I *)
(* and nothing else from interface_ips, and when its projection returns Ok *)
(* (no other handler in progress) the sets of the zones of I hold the      *)
(* projection of the state without I: a zone fed only by I ends empty.     *)
(***************************************************************************)
C8_LinkGoneRemovesAddresses ==
    [][\A t \in TaskIds :
          (task[t].ev.type = "LinkChanged" /\ ~task[t].ev.is_up) =>
              /\ (task[t].pc = "spawned" /\ task'[t].pc # "spawned") =>
                     interface_ips' = Remove(interface_ips, task[t].ev.name)
              /\ (ReturnsOk(t) /\ Alone(t)) =>
                     \A i \in DOMAIN if_config :
                         if_config[i].name = task[t].ev.name
                             /\ if_config[i].nftables_zone # NoZone =>
                                 KernelHolds(ksets', if_config, interface_ips',
                                             if_config[i].nftables_zone)]_vars

(***************************************************************************)
(* C9.  A reload whose config moves an interface with addresses from zone  *)
(* A to zone B: when its projection returns Ok (no other handler in        *)
(* progress), the sets of A and of B hold the projection under the new     *)
(* config.                                                                 *)
(***************************************************************************)
ZoneOf(cfg, name) ==
    {cfg[i].nftables_zone : i \in {j \in DOMAIN cfg : cfg[j].name = name}} \ {NoZone}

C9_ReloadMovesInterface ==
    [][\A t \in TaskIds :
          (task[t].ev.type = "Reload" /\ ReturnsOk(t) /\ Alone(t)) =>
              \A I \in DOMAIN interface_ips :
                  (/\ interface_ips[I] # << >>
                   /\ ZoneOf(task[t].old_cfg, I) # ZoneOf(task[t].cfg.interfaces, I)) =>
                      \A z \in ZoneOf(task[t].old_cfg, I)
                                  \cup ZoneOf(task[t].cfg.interfaces, I) :
                          KernelHolds(ksets', task[t].cfg.interfaces,
                                      interface_ips', z)]_vars

(***************************************************************************)
(* C10.  A reload whose config could not be loaded leaves the config in    *)
(* effect, the addresses of the State Store and the kernel sets as they    *)
(* were: neither taking the command from the queue nor the task spawned    *)
(* for it changes any of them.                                             *)
(***************************************************************************)
FailedReloadStep ==
    \/ /\ queue # << >>
       /\ Head(queue).ev.type = "Reload"
       /\ task[Head(queue).id].pc = "none"
       /\ task'[Head(queue).id].pc = "spawned"
       /\ ~task'[Head(queue).id].cfg.ok
    \/ \E t \in TaskIds :
          /\ task[t].ev.type = "Reload"
          /\ task[t].pc = "spawned"
          /\ ~task[t].cfg.ok
          /\ task'[t] # task[t]

C10_FailedReloadKeepsState ==
    [][FailedReloadStep =>
          /\ app_config' = app_config
          /\ if_config' = if_config
          /\ interface_ips' = interface_ips
          /\ ksets' = ksets
          /\ state_lock' = state_lock]_vars

\* A failed reload has been handled while the State Store held addresses
\* and a kernel set held elements.
C10_Witness ==
    /\ \E t \in TaskIds : /\ task[t].ev.type = "Reload"
                          /\ task[t].pc = "done"
                          /\ ~task[t].cfg.ok
    /\ \E I \in DOMAIN interface_ips : interface_ips[I] # << >>
    /\ \E s \in DOMAIN ksets : ksets[s] # {}

(***************************************************************************)
(* C12.  One task owns the writes of the State Store: every step that      *)
(* changes interface_ips or the stored config is a step of the event loop  *)
(* itself, never a step of a task it spawned.  (The container map is       *)
(* written in the loop's own Docker arm, main.rs 136-157.)                 *)
(***************************************************************************)
StoreWritten == interface_ips' # interface_ips \/ app_config' # app_config
\* A task spawned earlier takes this step.
TaskStep(t) == task[t].pc # "none" /\ task'[t] # task[t]

C12_OnlyTheEventLoopWrites ==
    [][StoreWritten => \A t \in TaskIds : ~TaskStep(t)]_vars

(***************************************************************************)
(* C13.  While a projection is in progress (its flush submitted, its add   *)
(* still to come), the task performing it does not hold the AppState       *)
(* mutex.                                                                  *)
(***************************************************************************)
C13_NoLockDuringProjection ==
    \A t \in TaskIds :
        (task[t].pc = "add" /\ FlushCommands(task[t].target) # {}) =>
            t \notin state_lock

(***************************************************************************)
(* C14.  A rejected projection is recoverable: the step in which           *)
(* apply_rules returns Err leaves the State Store as its handler wrote it, *)
(* and once some projection was rejected, a later projection that returns  *)
(* Ok (no other handler in progress, the sets of the stored config         *)
(* existing) leaves the kernel sets equal to the projection of the State   *)
(* Store as it then is.                                                    *)
(***************************************************************************)
ReturnsErr(t) ==
    /\ task[t].pc \in {"apply", "add"}
    /\ task'[t].pc = "done"
    /\ task'[t].res = "err"

C14_RecoversAfterRejection ==
    [][\A t \in TaskIds :
          /\ ReturnsErr(t) =>
                 /\ interface_ips' = interface_ips
                 /\ app_config' = app_config
                 /\ main_pc' = main_pc
          /\ (/\ \E u \in TaskIds : task[u].res = "err"
              /\ task[t].pc \in {"apply", "add"}
              /\ task'[t].pc = "done"
              /\ task'[t].res = "ok"
              /\ Alone(t)
              /\ RequiredSets(app_config') \subseteq DOMAIN ksets) =>
                 \A z \in UniqueZones(app_config') :
                     KernelHolds(ksets', app_config', interface_ips', z)]_vars

(***************************************************************************)
(* C15.  A failed load_rules at start-up ends the daemon: main() does not  *)
(* go on to the initial projection and the event loop.                     *)
(***************************************************************************)
C15_LoadRulesFailureIsFatal ==
    [][(main_pc = "load_rules" /\ failed') =>
          main_pc' \notin {"initial_apply", "loop"}]_vars

(***************************************************************************)
(* C17.  After load_rules returned Ok, for every zone some interface of    *)
(* the config is bound to, the set <zone>_ips exists with type ipv4_addr   *)
(* and the set <zone>_ipv6 with type ipv6_addr (table filter, family       *)
(* inet), and a set it created holds no element.                           *)
(***************************************************************************)
C17_LoadRulesCreatesBothSets ==
    [][(main_pc = "load_rules" /\ main_pc' # "load_rules" /\ ~failed') =>
          /\ \A i \in DOMAIN if_config :
                if_config[i].nftables_zone # NoZone =>
                    LET z == if_config[i].nftables_zone
                    IN  /\ << z, "_ips" >> \in DOMAIN ksets'
                        /\ kset_type'[<< z, "_ips" >>] = "ipv4_addr"
                        /\ << z, "_ipv6" >> \in DOMAIN ksets'
                        /\ kset_type'[<< z, "_ipv6" >>] = "ipv6_addr"
          /\ \A s \in (DOMAIN ksets') \ (DOMAIN ksets) : ksets'[s] = {}]_vars

\* load_rules has returned Ok, and the zone lan, without any address, is
\* there as two empty sets.
C17_Witness ==
    /\ main_pc = "initial_apply"
    /\ ~failed
    /\ {<< "lan", "_ips" >>, << "lan", "_ipv6" >>} \subseteq DOMAIN ksets
    /\ ksets[<< "lan", "_ips" >>] = {}
    /\ ksets[<< "lan", "_ipv6" >>] = {}

(***************************************************************************)
(* C18.  load_rules runs on every successful reload before the reload's    *)
(* projection: when the reload task calls apply_rules (no transaction      *)
(* rejected so far), the two sets of every zone of the new config exist.   *)
(***************************************************************************)
C18_ReloadEnsuresStructure ==
    [][\A t \in TaskIds :
          (/\ task[t].ev.type = "Reload"
           /\ task[t].pc = "apply"
           /\ task'[t].pc # "apply"
           /\ ~failed) =>
              RequiredSets(task[t].cfg.interfaces) \subseteq DOMAIN ksets]_vars

(***************************************************************************)
(* C11.  When no event is queued or being handled, interface_ips holds,    *)
(* for every interface the watcher knows, the addresses the watcher last   *)
(* learned for it (those of the start-up enumeration included), and holds  *)
(* no entry for a name the watcher does not know.                          *)
(***************************************************************************)
C11_StoreReflectsWatcher ==
    (Quiescent /\ monitor_pc = "listening" /\ pending = << >>) =>
        /\ \A i \in DOMAIN current_ips :
              current_ips[i] # << >> =>
                  /\ if_index_to_name[i] \in DOMAIN interface_ips
                  /\ Range(interface_ips[if_index_to_name[i]]) = Range(current_ips[i])
        /\ \A n \in DOMAIN interface_ips :
              \E i \in DOMAIN if_index_to_name : if_index_to_name[i] = n

(***************************************************************************)
(* C16.  A failed bind of the control socket ends the daemon: once the     *)
(* bind has failed, the event loop takes no further event from the queue.  *)
(***************************************************************************)
C16_BindFailureIsFatal ==
    [][socket_pc = "failed" =>
          ~(main_pc = "loop" /\ queue # << >> /\ queue' = Tail(queue))]_vars

(***************************************************************************)
(* C19.  A ping the event loop takes from the queue is answered with PONG  *)
(* and a newline; nothing is written to a ping's client before the loop    *)
(* has taken that Ping from the queue and sent on its reply slot (the      *)
(* error line apart, written when the slot was dropped unused); and        *)
(* nothing is sent on a reply slot twice.                                  *)
(***************************************************************************)
\* The words of a line, white space left out.
WordsOf(line) == SelectSeq(line, LAMBDA w : w \notin {" ", "\n"})
Queued(id) == \E k \in DOMAIN queue : queue[k].id = id

C19_PingIsAnsweredPong ==
    \A c \in ConnIds :
        /\ conn[c].sends <= 1
        /\ WordsOf(conn[c].line) = << "ping" >> =>
              /\ conn[c].slot = "sent" =>
                    /\ conn[c].payload = << "PONG" >>
                    /\ conn[c].sends = 1
                    /\ conn[c].ev_id # 0
                    /\ ~Queued(conn[c].ev_id)
              /\ conn[c].reply # << >> =>
                    \/ /\ conn[c].reply = << "PONG", "\n" >>
                       /\ conn[c].slot = "sent"
                    \/ /\ conn[c].reply = ReplyError
                       /\ conn[c].slot = "closed"
              /\ conn[c].pc = "done" => conn[c].reply = << "PONG", "\n" >>

\* A client that sent " ping \n" has been written PONG.
C19_Witness ==
    \E c \in ConnIds :
        /\ conn[c].line = << " ", "ping", " ", "\n" >>
        /\ conn[c].pc = "done"
        /\ conn[c].reply = << "PONG", "\n" >>

(***************************************************************************)
(* C20.  While the queue has its receiver, handle_connection sends exactly *)
(* one event for a line whose only word is reload, status, ping or         *)
(* shutdown, the event of that command, and sends nothing for any other    *)
(* line, whose client (end of file apart) is written ERROR: Unknown        *)
(* command; the OK line of reload and of shutdown is written only by a     *)
(* connection that has sent its event.                                     *)
(***************************************************************************)
EventOfWord(w) ==
    CASE w = "reload" -> Reload
      [] w = "status" -> Status
      [] w = "ping" -> Ping
      [] w = "shutdown" -> Shutdown

C20_OneEventPerCommand ==
    [][\A c \in ConnIds :
          LET words == WordsOf(conn[c].line)
              known == /\ Len(words) = 1
                       /\ words[1] \in {"reload", "status", "ping", "shutdown"}
          IN  /\ (conn[c].pc = "read" /\ conn'[c].pc # "read" /\ main_pc # "exited") =>
                    IF known
                    THEN /\ queue' = Append(queue, [id |-> sent + 1,
                                                    ev |-> EventOfWord(words[1])])
                         /\ conn'[c].ev_id = sent + 1
                         /\ conn'[c].reply = << >>
                    ELSE /\ queue' = queue
                         /\ conn'[c].reply = IF conn[c].line = << >>
                                             THEN << >> ELSE UnknownCommand
              /\ (conn[c].pc # "read" /\ conn'[c] # conn[c]) =>
                    /\ sent' = sent
                    /\ Len(queue') <= Len(queue)
              /\ conn'[c].reply = OkReload =>
                    words = << "reload" >> /\ conn'[c].ev_id # 0
              /\ conn'[c].reply = OkShutdown =>
                    words = << "shutdown" >> /\ conn'[c].ev_id # 0]_vars

\* One client has been acknowledged its reload, its Reload event taken by
\* the loop, and another has been answered that its text is no command.
C20_Witness ==
    /\ \E c \in ConnIds :
          /\ conn[c].reply = OkReload
          /\ conn[c].ev_id \in TaskIds
          /\ task[conn[c].ev_id].ev = Reload
    /\ \E c \in ConnIds :
          /\ conn[c].line = << "reload", " ", "now", "\n" >>
          /\ conn[c].reply = UnknownCommand

(***************************************************************************)
(* C21.  A connection reads command lines until end of file: when          *)
(* handle_connection has returned, every line the client wrote on the      *)
(* connection has been read (and so processed and answered); none is left  *)
(* unread in the stream.                                                   *)
(***************************************************************************)
C21_EveryLineIsRead ==
    \A c \in ConnIds :
        conn[c].pc \in {"done", "err"} => conn[c].unread = << >>

(***************************************************************************)
(* C22.  Once the event loop has taken a Shutdown command from the queue   *)
(* or a termination signal, it takes no further event: no handler task is  *)
(* spawned (so no event queued behind it mutates the State Store or is     *)
(* projected), nothing is sent on a reply slot, and the queue loses no     *)
(* event but by being dropped whole when main returns.                     *)
(***************************************************************************)
ShutdownObserved ==
    \/ signal = "taken"
    \/ \E c \in ConnIds :
          /\ CommandEvent(Trim(conn[c].line)) = Shutdown
          /\ conn[c].ev_id # 0
          /\ ~Queued(conn[c].ev_id)

C22_ShutdownDrainsNothing ==
    [][ShutdownObserved =>
          /\ \A t \in TaskIds : task[t].pc = "none" => task'[t].pc = "none"
          /\ \A c \in ConnIds : /\ conn'[c].sends = conn[c].sends
                                 /\ conn'[c].slot = "sent" => conn[c].slot = "sent"
          /\ container_ips' = container_ips
          /\ Idle => (interface_ips' = interface_ips /\ ksets' = ksets)
          /\ \/ Len(queue') >= Len(queue)
             \/ main_pc' = "exited" /\ queue' = << >>]_vars

\* A signal has been taken with an address update and a ping still queued.
C22_Witness ==
    /\ main_pc = "exited"
    /\ signal = "taken"
    /\ interface_ips = EmptyMap
    /\ \A t \in TaskIds : task[t].pc = "none"
    /\ sent = 2
    /\ \E c \in ConnIds : /\ conn[c].ev_id # 0
                           /\ conn[c].slot = "closed"
                           /\ conn[c].sends = 0

(***************************************************************************)
(* C23.  A termination signal delivered to the process, or a Shutdown      *)
(* command in the queue, leads to the event loop exiting, the monitor,     *)
(* the Docker and the socket task aborted (where they had not ended        *)
(* before) and main returning Ok.                                          *)
(***************************************************************************)
C23_ShutdownExits ==
    (signal = "pending" \/ \E k \in DOMAIN queue : queue[k].ev.type = "Shutdown")
        ~> /\ main_pc = "exited"
           /\ main_result = "ok"
           /\ monitor_pc = "aborted"
           /\ socket_pc \in {"aborted", "failed"}
           /\ docker_pc \in {"aborted", "disabled"}

\* The daemon has exited on a shutdown command, its Docker task aborted.
C23_Witness ==
    /\ main_pc = "exited"
    /\ main_result = "ok"
    /\ signal = "none"
    /\ docker_pc = "aborted"
    /\ monitor_pc = "aborted"
    /\ \E c \in ConnIds : conn[c].reply = OkShutdown

(***************************************************************************)
(* C24.  The event queue never holds more than EVENT_CHANNEL_SIZE events;  *)
(* no event is handed to a full queue (its producer waits); and while the  *)
(* loop has not exited the queue changes only by events appended at its    *)
(* end or by its head being taken: no event is dropped, none is taken      *)
(* twice.  The events still queued when the loop exits are dropped with    *)
(* the queue.                                                              *)
(***************************************************************************)
C24_QueueBoundedNoLoss ==
    [][/\ Len(queue') <= EVENT_CHANNEL_SIZE
       /\ Len(queue) = EVENT_CHANNEL_SIZE => sent' = sent
       /\ main_pc' # "exited" =>
             /\ \/ queue' = queue /\ sent' = sent
                \/ queue # << >> /\ queue' = Tail(queue) /\ sent' = sent
                \/ /\ Len(queue') > Len(queue)
                   /\ SubSeq(queue', 1, Len(queue)) = queue
                   /\ sent' = sent + (Len(queue') - Len(queue))
             /\ \A k \in DOMAIN queue' :
                   queue'[k].id = (sent' - Len(queue')) + k]_vars

\* The queue is full again after more events than it holds were sent: a
\* producer has waited for room.
C24_Witness ==
    /\ main_pc = "loop"
    /\ sent > EVENT_CHANNEL_SIZE
    /\ Len(queue) = EVENT_CHANNEL_SIZE

\* Every event handed to the queue while the loop is running is taken from
\* it: when main returns, no event is left in the queue.
C24_EveryEventIsDequeued ==
    [][main_pc' = "exited" => queue = << >>]_vars

(***************************************************************************)
(* C25.  B3: IPv4 and IPv6 addresses never mix.  Every element the add     *)
(* batch of a projection names for a set <zone>_ips is an IPv4 address and *)
(* every element it names for <zone>_ipv6 an IPv6 address, and so is every *)
(* element a kernel set holds, whatever interface_ips holds.               *)
(***************************************************************************)
C25_FamiliesNeverMix ==
    /\ \A t \in TaskIds :
          task[t].pc = "add" =>
              LET batch == AddBatch(task[t].target)
              IN  \A s \in DOMAIN batch : \A ip \in batch[s] :
                      /\ s[2] = "_ips" => ip.fam = "V4"
                      /\ s[2] = "_ipv6" => ip.fam = "V6"
    /\ \A s \in DOMAIN ksets : \A ip \in ksets[s] :
          /\ s[2] = "_ips" => ip.fam = "V4"
          /\ s[2] = "_ipv6" => ip.fam = "V6"

\* An interface with an IPv4 and an IPv6 address has been projected: each
\* set of its zone holds the address of its family.
C25_Witness ==
    /\ << "wan", "_ips" >> \in DOMAIN ksets
    /\ << "wan", "_ipv6" >> \in DOMAIN ksets
    /\ ksets[<< "wan", "_ips" >>] = {V4a}
    /\ ksets[<< "wan", "_ipv6" >>] = {V6a}

(***************************************************************************)
(* C26.  validate_config returns the ConfigValidation error for a config   *)
(* whose interfaces list is empty or holds an entry with an empty name,    *)
(* and Ok for every other config; at start-up the error ends main with an  *)
(* Err before anything is loaded into the kernel, and a config that passes *)
(* is the one the daemon goes on with.                                     *)
(***************************************************************************)
C26_ValidationIsFatal ==
    [][main_pc = "load_config" =>
          LET names == {config_file[i].name : i \in DOMAIN config_file}
              bad == Len(config_file) = 0 \/ "" \in names
          IN  /\ bad => /\ ValidateConfig(config_file) = "ConfigValidation"
                        /\ main_pc' = "exited"
                        /\ main_result' = "err"
                        /\ ksets' = EmptyMap
              /\ ~bad => /\ ValidateConfig(config_file) = "Ok"
                         /\ main_pc' = "load_rules"
                         /\ main_result' = "none"
                         /\ app_config' = config_file
                         /\ if_config' = config_file]_vars

\* main has returned Err for a config whose second entry has an empty name.
C26_Witness ==
    /\ main_pc = "exited"
    /\ main_result = "err"
    /\ config_file = << InterfaceConfig("eth0", "wan"), InterfaceConfig("", NoZone) >>

(***************************************************************************)
(* C27.  Containers are not members of zones: the step in which the event  *)
(* loop handles a ContainerStarted or ContainerStopped event changes the   *)
(* container map as the event says and nothing else of the state: not      *)
(* interface_ips, not the config, no kernel set, and it spawns or advances *)
(* no handler task, so no projection follows from it.                      *)
(***************************************************************************)
DockerEventStep ==
    /\ main_pc = "loop"
    /\ queue # << >>
    /\ Head(queue).ev.type \in {"ContainerStarted", "ContainerStopped"}
    /\ queue' = Tail(queue)

C27_ContainersOutsideZones ==
    [][DockerEventStep =>
          LET ev == Head(queue).ev
              id == ev.name
          IN  /\ interface_ips' = interface_ips
              /\ app_config' = app_config
              /\ if_config' = if_config
              /\ ksets' = ksets
              /\ task' = task
              /\ failed' = failed
              /\ \A other \in ContainerIds \ {id} :
                    /\ other \in DOMAIN container_ips' <=> other \in DOMAIN container_ips
                    /\ other \in DOMAIN container_ips =>
                           container_ips'[other] = container_ips[other]
              /\ ev.type = "ContainerStopped" => id \notin DOMAIN container_ips'
              /\ (ev.type = "ContainerStarted" /\ ev.ips # << >>) =>
                    /\ id \in DOMAIN container_ips'
                    /\ container_ips'[id] = ev.ips[1]
              /\ (ev.type = "ContainerStarted" /\ ev.ips = << >>) =>
                    container_ips' = container_ips]_vars

\* A container's address is tracked while the kernel set of zone wan holds
\* the address of eth0 and nothing else.
C27_Witness ==
    /\ "c1" \in DOMAIN container_ips
    /\ container_ips["c1"] = V4b
    /\ "eth0" \in DOMAIN interface_ips
    /\ DOMAIN interface_ips = {"eth0"}
    /\ << "wan", "_ips" >> \in DOMAIN ksets
    /\ ksets[<< "wan", "_ips" >>] = {V4a}
    /\ Quiescent

(***************************************************************************)
(* C28.  The address event the watcher sends for a NEWADDR or a DELADDR    *)
(* carries every address the watcher holds for that interface once the     *)
(* message is applied, not the one address of the message: it is the list  *)
(* of the index whose entry the message changed, sent under the name of    *)
(* that index.                                                             *)
(***************************************************************************)
\* The monitor handles an address message and sends an event for it.
AddressEventStep ==
    /\ messages' = messages + 1
    /\ if_index_to_name' = if_index_to_name
    /\ Len(queue') = Len(queue) + 1
    /\ queue'[Len(queue')].ev.type = "IpUpdate"

C28_AddressEventCarriesFullSet ==
    [][AddressEventStep =>
          LET ev == queue'[Len(queue')].ev
          IN  \E i \in DOMAIN if_index_to_name :
                 /\ if_index_to_name[i] = ev.name
                 /\ i \in DOMAIN current_ips'
                 /\ i \in DOMAIN current_ips => current_ips'[i] # current_ips[i]
                 /\ \A j \in (DOMAIN current_ips) \ {i} :
                        j \in DOMAIN current_ips' /\ current_ips'[j] = current_ips[j]
                 /\ ev.ips = current_ips'[i]]_vars

\* The watcher, holding one address of eth0, has handled a NEWADDR of a
\* second and sent both.
C28_Witness ==
    /\ messages > 0
    /\ \E i \in DOMAIN current_ips :
          /\ Len(current_ips[i]) = 2
          /\ i \in DOMAIN if_index_to_name
          /\ \E k \in DOMAIN queue :
                queue[k].ev = IpUpdate(if_index_to_name[i], current_ips[i])

(***************************************************************************)
(* C29.  The watcher never sends an address update for an interface whose  *)
(* address set equals the set of the update it sent last for that          *)
(* interface: of two address updates for one name waiting in the queue     *)
(* with no third between them, the later carries another set.              *)
(***************************************************************************)
IsIpUpdateFor(k, name) ==
    queue[k].ev.type = "IpUpdate" /\ queue[k].ev.name = name

C29_NoDuplicateAddressUpdate ==
    \A j, k \in DOMAIN queue :
       (/\ j < k
        /\ queue[j].ev.type = "IpUpdate"
        /\ IsIpUpdateFor(k, queue[j].ev.name)
        /\ \A m \in (j + 1)..(k - 1) : ~IsIpUpdateFor(m, queue[j].ev.name)) =>
           Range(queue[k].ev.ips) # Range(queue[j].ev.ips)

(***************************************************************************)
(* C30.  A NEWLINK that gives a known index another name makes the watcher *)
(* send a link-down for the old name, then the link event for the new      *)
(* name, then the addresses of the index under the new name.               *)
(***************************************************************************)
\* The monitor handles a NEWLINK that renames index i.
RenameStep(i) ==
    /\ messages' = messages + 1
    /\ i \in DOMAIN if_index_to_name
    /\ i \in DOMAIN if_index_to_name'
    /\ if_index_to_name'[i] # if_index_to_name[i]

C30_RenameIsGoneThenPresent ==
    [][\A i \in Indexes :
          RenameStep(i) =>
             \E up \in BOOLEAN :
                queue' = queue \o
                   [k \in 1..(Len(queue') - Len(queue)) |->
                      [id |-> sent + k,
                       ev |-> (<< LinkChanged(if_index_to_name[i], FALSE),
                                  LinkChanged(if_index_to_name'[i], up) >> \o
                               (IF i \in DOMAIN current_ips
                                THEN << IpUpdate(if_index_to_name'[i], current_ips[i]) >>
                                ELSE << >>))[k]]]]_vars

(***************************************************************************)
(* C31.  A NEWLINK that repeats a known (index, name) with another up-flag *)
(* than the one last reported makes the watcher send a link event.  A flag *)
(* has been reported for every known index, by the dump or by a NEWLINK,   *)
(* and one of the two flags differs from it: the NEWLINK with the flag up  *)
(* and the NEWLINK with the flag down cannot both pass without an event.   *)
(***************************************************************************)
\* The monitor handles msg, a NEWLINK that repeats a known (index, name).
RepeatedNewLink(msg) ==
    /\ msg.index \in DOMAIN if_index_to_name
    /\ if_index_to_name[msg.index] = msg.name
    /\ HandleNewLink(msg)

C31_FlagChangeIsReported ==
    [][\A i \in Indexes, n \in Names :
          ~(/\ RepeatedNewLink(LinkMessage(i, n, TRUE))
            /\ RepeatedNewLink(LinkMessage(i, n, FALSE))
            /\ queue' = queue)]_vars

(***************************************************************************)
(* C32.  When the netlink message stream ends, the watcher's start returns *)
(* an error: the listening watcher stops listening only by failing (for    *)
(* its supervisor to start it again) or by being aborted at shutdown.      *)
(***************************************************************************)
C32_StreamEndIsAnError ==
    [][(monitor_pc = "listening" /\ monitor_pc' # "listening") =>
          monitor_pc' \in {"failed", "aborted"}]_vars

(***************************************************************************)
(* C33.  A NEWADDR or a DELADDR for an index the watcher has no name for   *)
(* is dropped: handling it sends no event and leaves the watcher's         *)
(* index-to-name map and its address map as they were.                     *)
(***************************************************************************)
C33_UnknownIndexIsDropped ==
    [][\A msg \in AddressMessages, is_add \in BOOLEAN :
          (/\ msg.index \notin DOMAIN if_index_to_name
           /\ HandleAddressChange(msg, is_add)) =>
              UNCHANGED << if_index_to_name, current_ips, queue, sent, pending >>]_vars

\* The watcher knows index 1 alone and has handled a message that left no
\* trace: no event sent, no address kept, nothing known of index 2.
C33_Witness ==
    /\ monitor_pc = "listening"
    /\ messages > 0
    /\ DOMAIN if_index_to_name = {1}
    /\ current_ips = EmptyMap
    /\ sent = 0

(***************************************************************************)
(* C34.  A DELLINK for a known index makes the watcher forget the index    *)
(* and its addresses and send the link-down event under the name the index *)
(* had; when the index had an address entry, an empty address update for   *)
(* that name is sent first and the link-down event is the watcher's next   *)
(* send.  A DELLINK for an unknown index sends nothing and changes         *)
(* nothing in the watcher.                                                 *)
(***************************************************************************)
Enqueued(ev) == queue' = Append(queue, [id |-> sent + 1, ev |-> ev])

C34_DelLinkForgetsAndReports ==
    [][/\ \A i \in Indexes :
            (/\ messages' = messages + 1
             /\ i \in DOMAIN if_index_to_name
             /\ i \notin DOMAIN if_index_to_name') =>
                /\ i \notin DOMAIN current_ips'
                /\ IF i \in DOMAIN current_ips
                   THEN /\ Enqueued(IpUpdate(if_index_to_name[i], << >>))
                        /\ pending' = << LinkChanged(if_index_to_name[i], FALSE) >>
                   ELSE /\ Enqueued(LinkChanged(if_index_to_name[i], FALSE))
                        /\ pending' = << >>
       /\ (pending # << >> /\ pending' # pending) =>
             Enqueued(pending[1]) /\ pending' = << >>
       /\ pending # << >> => messages' = messages
       /\ \A i \in Indexes :
            (i \notin DOMAIN if_index_to_name /\ HandleDelLink(i)) =>
                UNCHANGED << if_index_to_name, current_ips, queue, sent, pending >>]_vars

\* Index 1, eth0 with an address, is deleted: the empty address update and
\* the link-down event are in the queue, in that order, and the index is
\* forgotten.
C34_Witness ==
    /\ messages > 0
    /\ 1 \notin DOMAIN if_index_to_name
    /\ 1 \notin DOMAIN current_ips
    /\ pending = << >>
    /\ \E k \in DOMAIN queue :
          /\ k + 1 \in DOMAIN queue
          /\ queue[k].ev = IpUpdate("eth0", << >>)
          /\ queue[k + 1].ev = LinkChanged("eth0", FALSE)

(***************************************************************************)
(* C35.  The Projector is invoked only for an event that changed the State *)
(* Store: a handler task whose event left interface_ips as it was does not *)
(* go on to apply_rules.                                                   *)
(***************************************************************************)
C35_ProjectsOnlyOnChange ==
    [][\A t \in TaskIds :
          (/\ task[t].pc = "spawned"
           /\ task[t].ev.type \in {"IpUpdate", "LinkChanged"}
           /\ task'[t].pc # "spawned"
           /\ interface_ips' = interface_ips) =>
              task'[t].pc # "apply"]_vars

(***************************************************************************)
(* C36.  A projection computed from an older snapshot of the State Store   *)
(* is never written to the kernel after a projection computed from a newer *)
(* one.  A handler task in apply_rules whose snapshot is no longer the     *)
(* store's state holds an older snapshot; when every other task that has   *)
(* taken a snapshot has finished apply_rules with Ok for an address update *)
(* of a zoned interface, a newer projection is written, and the task       *)
(* changes the kernel's sets no more.                                      *)
(***************************************************************************)
IsNetworkTask(t) == task[t].ev.type \in {"IpUpdate", "LinkChanged"}
Zoned(name) ==
    \E i \in DOMAIN if_config :
       if_config[i].name = name /\ if_config[i].nftables_zone # NoZone
HoldsOlderSnapshot(t) ==
    /\ IsNetworkTask(t)
    /\ task[t].pc \in {"apply", "add"}
    /\ task[t].snap # interface_ips
NewerIsWritten(t) ==
    \A u \in TaskIds \ {t} :
       \/ ~IsNetworkTask(u)
       \/ task[u].pc = "spawned"
       \/ /\ task[u].pc = "done"
          /\ task[u].res = "ok"
          /\ task[u].ev.type = "IpUpdate"
          /\ Zoned(task[u].ev.name)

C36_NoStaleProjection ==
    [][\A t \in TaskIds :
          (HoldsOlderSnapshot(t) /\ NewerIsWritten(t) /\ task'[t] # task[t]) =>
              ksets' = ksets]_vars

(***************************************************************************)
(* C37.  No deadlock on the two mutexes.  Each has one holder at most; no  *)
(* task takes the State Store mutex while it holds the config mutex;       *)
(* whenever the event loop or a task waits for a mutex, some holder of a   *)
(* mutex waits for none and can take its next step; and every holder       *)
(* releases what it holds.                                                 *)
(***************************************************************************)
\* Task t is at a lock().await of the State Store, or of the config.
WantsState(t) ==
    /\ task[t].pc = "spawned"
    /\ \/ task[t].ev.type \in {"IpUpdate", "LinkChanged"}
       \/ task[t].ev.type = "Reload" /\ task[t].cfg.ok
WantsConfig(t) == task[t].pc = "apply" /\ t \notin config_lock
Blocked(t) ==
    \/ WantsState(t) /\ state_lock # {}
    \/ WantsConfig(t) /\ config_lock # {}
\* The event loop is at the lock().await of its Docker arm.
LoopBlocked ==
    /\ main_pc = "loop"
    /\ queue # << >>
    /\ Head(queue).ev.type \in {"ContainerStarted", "ContainerStopped"}
    /\ state_lock # {}
CanRun(t) ==
    /\ ~Blocked(t)
    /\ ENABLED (ApplyRulesLock(t) \/ ApplyRulesFlush(t) \/ ApplyRulesAdd(t))

SomeHolderRuns ==
    /\ Cardinality(state_lock) <= 1
    /\ Cardinality(config_lock) <= 1
    /\ (LoopBlocked \/ \E t \in TaskIds : Blocked(t)) =>
          \E h \in state_lock \cup config_lock : CanRun(h)

C37_NoDeadlock ==
    /\ []SomeHolderRuns
    /\ [][\A t \in state_lock' \ state_lock :
             t \notin config_lock /\ t \notin config_lock']_vars
    /\ \A t \in TaskIds : (t \in state_lock) ~> (t \notin state_lock)
    /\ \A t \in TaskIds : (t \in config_lock) ~> (t \notin config_lock)

\* A reload task holds both mutexes while the event loop, or another task,
\* waits for one of them.
C37_Witness ==
    \E t \in TaskIds :
       /\ t \in state_lock
       /\ t \in config_lock
       /\ LoopBlocked \/ \E u \in TaskIds : Blocked(u)

(***************************************************************************)
(* C38.  A client waiting on the reply to a ping never waits forever: it   *)
(* eventually receives the payload or an error line, also when the event   *)
(* loop shuts down before it has taken the command from the queue.         *)
(***************************************************************************)
C38_WaitingClientIsAnswered ==
    \A c \in ConnIds : (conn[c].pc = "wait") ~> (conn[c].reply # << >>)

(***************************************************************************)
(* C39.  Once the event loop has handled a container event, the container  *)
(* map holds the address of a container-started event that carries one,    *)
(* under the container's id, and holds no address for the id of a          *)
(* container-started event without an address or of a container-stopped    *)
(* event.                                                                  *)
(***************************************************************************)
C39_ContainerMapFollowsLatestEvent ==
    [][DockerEventStep =>
          LET ev == Head(queue).ev
          IN  IF ev.type = "ContainerStarted" /\ ev.ips # << >>
              THEN /\ ev.name \in DOMAIN container_ips'
                   /\ container_ips'[ev.name] = ev.ips[1]
              ELSE ev.name \notin DOMAIN container_ips']_vars

(***************************************************************************)
(* C40.  An address update for an interface that the config binds to no    *)
(* zone causes no set to be flushed: the flush phase of the apply_rules    *)
(* call that follows it leaves every kernel set as it was.                 *)
(***************************************************************************)
C40_UnzonedUpdateFlushesNothing ==
    [][\A t \in TaskIds :
          (/\ task[t].ev.type = "IpUpdate"
           /\ ~Zoned(task[t].ev.name)
           /\ task[t].pc = "apply"
           /\ task'[t] # task[t]) =>
              ksets' = ksets]_vars

============================================================================
